---------------------------- MODULE Spec2Model ----------------------------
(***************************************************************************)
(* A model of version-lsp: the npm version matcher, the diagnostics        *)
(* engine, the cache store, the package resolver and the LSP backend.      *)
(*                                                                         *)
(* Strings are sequences of one-character strings, so that parsing         *)
(* (str::trim, str::strip_prefix, str::split, u64::from_str and            *)
(* semver::Version::parse) is computed character by character.             *)
(***************************************************************************)
EXTENDS Integers, Sequences, FiniteSets, TLC

(***************************************************************************)
(* Bounds of the model.                                                    *)
(***************************************************************************)
\* Largest major/minor/patch number of the version strings drawn as inputs.
MaxNum == 2
\* Largest major/minor/patch number of the base of a drawn range spec.
MaxBase == 1
\* Longest list of known versions handed to version_exists.
MaxVersions == 2

(***************************************************************************)
(* Characters and strings.                                                 *)
(***************************************************************************)
Digits == {"0", "1", "2", "3", "4", "5", "6", "7", "8", "9"}

Letters == {"a", "b", "x", "X", "v"}

\* The characters semver accepts inside a pre-release or build identifier.
IdentChars == Digits \cup Letters \cup {"-"}

\* Every character a modelled string is made of.
AllChars ==
    IdentChars \cup {" ", "*", "+", ".", "<", "=", ">", "^", "~"}

\* ASCII code of a character (the order Rust's str comparison uses).
CharCode(c) ==
    CASE c = " " -> 32 [] c = "*" -> 42 [] c = "+" -> 43 [] c = "-" -> 45
      [] c = "." -> 46 [] c = "0" -> 48 [] c = "1" -> 49 [] c = "2" -> 50
      [] c = "3" -> 51 [] c = "4" -> 52 [] c = "5" -> 53 [] c = "6" -> 54
      [] c = "7" -> 55 [] c = "8" -> 56 [] c = "9" -> 57 [] c = "<" -> 60
      [] c = "=" -> 61 [] c = ">" -> 62 [] c = "X" -> 88 [] c = "^" -> 94
      [] c = "a" -> 97 [] c = "b" -> 98 [] c = "v" -> 118 [] c = "x" -> 120
      [] c = "~" -> 126

DigitVal(c) == CharCode(c) - 48

\* Option<T>: None is the empty sequence, Some(v) the one-element sequence.
None == <<>>

Some(v) == <<v>>

IsSome(o) == Len(o) = 1

Unwrap(o) == o[1]

\* s[from..] (1-based), empty when from is past the end.
Drop(s, n) == SubSeq(s, n + 1, Len(s))

Take(s, n) == SubSeq(s, 1, n)

\* Length of the longest prefix of s made of characters of set C.
RECURSIVE PrefixLen(_, _)
PrefixLen(s, C) ==
    IF s = <<>> \/ Head(s) \notin C THEN 0 ELSE 1 + PrefixLen(Tail(s), C)

RECURSIVE SuffixLen(_, _)
SuffixLen(s, C) ==
    IF s = <<>> \/ s[Len(s)] \notin C THEN 0
    ELSE 1 + SuffixLen(Take(s, Len(s) - 1), C)

\* str::trim: strips leading and trailing white space.
Trim(s) ==
    LET l == PrefixLen(s, {" "})
        t == Drop(s, l)
    IN  Take(t, Len(t) - SuffixLen(t, {" "}))

StartsWith(s, p) == Len(s) >= Len(p) /\ Take(s, Len(p)) = p

\* str::strip_prefix: Some(rest) when s starts with p.
StripPrefix(s, p) == IF StartsWith(s, p) THEN Some(Drop(s, Len(p))) ELSE None

\* str::split(sep): the pieces between occurrences of the character sep.
RECURSIVE Split(_, _)
Split(s, sep) ==
    LET n == PrefixLen(s, AllChars \ {sep})
    IN  IF n = Len(s) THEN <<s>>
        ELSE <<Take(s, n)>> \o Split(Drop(s, n + 1), sep)

\* Value of a non-empty string of digits.
RECURSIVE DigitsValue(_)
DigitsValue(s) ==
    IF s = <<>> THEN 0
    ELSE 10 * DigitsValue(Take(s, Len(s) - 1)) + DigitVal(s[Len(s)])

AllDigits(s) == \A i \in 1..Len(s) : s[i] \in Digits

\* u64::from_str: an optional '+', then one or more digits (leading zeros
\* allowed).
ParseU64(s) ==
    LET d == IF s # <<>> /\ Head(s) = "+" THEN Tail(s) ELSE s
    IN  IF d # <<>> /\ AllDigits(d) THEN Some(DigitsValue(d)) ELSE None

\* Lexicographic comparison of two strings by character code: -1, 0 or 1.
RECURSIVE StrCmp(_, _)
StrCmp(a, b) ==
    IF a = <<>> THEN (IF b = <<>> THEN 0 ELSE -1)
    ELSE IF b = <<>> THEN 1
    ELSE IF CharCode(Head(a)) < CharCode(Head(b)) THEN -1
    ELSE IF CharCode(Head(a)) > CharCode(Head(b)) THEN 1
    ELSE StrCmp(Tail(a), Tail(b))

IntCmp(a, b) == IF a < b THEN -1 ELSE IF a > b THEN 1 ELSE 0

\* Ordering::then_with
ThenWith(o, p) == IF o # 0 THEN o ELSE p

(***************************************************************************)
(* semver::Version (the semver crate, as used by the npm matcher).         *)
(***************************************************************************)
\* A dot-separated identifier is well formed: no empty segment and, for a
\* pre-release, no numeric segment with a leading zero.
SegmentsOk(id, isPre) ==
    \A i \in DOMAIN Split(id, ".") :
        LET seg == Split(id, ".")[i]
        IN  /\ seg # <<>>
            /\ isPre /\ AllDigits(seg) /\ Len(seg) > 1 => Head(seg) # "0"

\* A numeric identifier at the front of s: digits without a leading zero.
\* Some([val, rest]) or None.
NumericIdentifier(s) ==
    LET n == PrefixLen(s, Digits)
    IN  IF n >= 1 /\ (n > 1 => Head(s) # "0")
        THEN Some([val |-> DigitsValue(Take(s, n)), rest |-> Drop(s, n)])
        ELSE None

\* The text after the '.' that must follow a parsed number, or None.
AfterDot(num) ==
    IF IsSome(num) /\ Unwrap(num).rest # <<>> /\ Head(Unwrap(num).rest) = "."
    THEN Some(Tail(Unwrap(num).rest))
    ELSE None

\* The optional +BUILD and the end of the input.
ParseBuild(major, minor, patch, pre, rest) ==
    IF rest # <<>> /\ Head(rest) = "+"
    THEN LET nb == PrefixLen(Tail(rest), IdentChars \cup {"."})
         IN  IF SegmentsOk(Take(Tail(rest), nb), FALSE) /\ Drop(rest, 1 + nb) = <<>>
             THEN Some([major |-> major, minor |-> minor, patch |-> patch,
                        pre |-> pre, build |-> Take(Tail(rest), nb)])
             ELSE None
    ELSE IF rest = <<>>
    THEN Some([major |-> major, minor |-> minor, patch |-> patch,
               pre |-> pre, build |-> <<>>])
    ELSE None

\* The optional -PRE.
ParsePre(major, minor, patch, rest) ==
    IF rest # <<>> /\ Head(rest) = "-"
    THEN LET np == PrefixLen(Tail(rest), IdentChars \cup {"."})
         IN  IF SegmentsOk(Take(Tail(rest), np), TRUE)
             THEN ParseBuild(major, minor, patch, Take(Tail(rest), np),
                             Drop(rest, 1 + np))
             ELSE None
    ELSE ParseBuild(major, minor, patch, <<>>, rest)

ParsePatch(major, minor, num) ==
    IF IsSome(num)
    THEN ParsePre(major, minor, Unwrap(num).val, Unwrap(num).rest)
    ELSE None

ParseMinor(major, num) ==
    IF IsSome(AfterDot(num))
    THEN ParsePatch(major, Unwrap(num).val,
                    NumericIdentifier(Unwrap(AfterDot(num))))
    ELSE None

ParseMajor(num) ==
    IF IsSome(AfterDot(num))
    THEN ParseMinor(Unwrap(num).val, NumericIdentifier(Unwrap(AfterDot(num))))
    ELSE None

\* semver::Version::parse: MAJOR.MINOR.PATCH[-PRE][+BUILD], each number
\* without leading zeros, nothing before or after.
VersionParse(s) == ParseMajor(NumericIdentifier(s))

\* Version::new(major, minor, patch)
VersionNew(major, minor, patch) ==
    [major |-> major, minor |-> minor, patch |-> patch,
     pre |-> <<>>, build |-> <<>>]

StripZeros(s) == Drop(s, PrefixLen(s, {"0"}))

\* Comparison of one pre-release segment (numeric below alphanumeric).
PreSegCmp(a, b) ==
    IF AllDigits(a) /\ AllDigits(b)
    THEN ThenWith(IntCmp(Len(a), Len(b)), StrCmp(a, b))
    ELSE IF AllDigits(a) THEN -1
    ELSE IF AllDigits(b) THEN 1
    ELSE StrCmp(a, b)

\* Comparison of one build-metadata segment.
BuildSegCmp(a, b) ==
    IF AllDigits(a) /\ AllDigits(b)
    THEN ThenWith(ThenWith(IntCmp(Len(StripZeros(a)), Len(StripZeros(b))),
                           StrCmp(StripZeros(a), StripZeros(b))),
                  IntCmp(Len(a), Len(b)))
    ELSE IF AllDigits(a) THEN -1
    ELSE IF AllDigits(b) THEN 1
    ELSE StrCmp(a, b)

RECURSIVE SegsCmp(_, _, _)
SegsCmp(l, r, isPre) ==
    IF l = <<>> THEN (IF r = <<>> THEN 0 ELSE -1)
    ELSE IF r = <<>> THEN 1
    ELSE ThenWith(IF isPre THEN PreSegCmp(Head(l), Head(r))
                  ELSE BuildSegCmp(Head(l), Head(r)),
                  SegsCmp(Tail(l), Tail(r), isPre))

\* impl Ord for Prerelease: no pre-release is above any pre-release.
PrereleaseCmp(a, b) ==
    IF a = <<>> THEN (IF b = <<>> THEN 0 ELSE 1)
    ELSE IF b = <<>> THEN -1
    ELSE SegsCmp(Split(a, "."), Split(b, "."), TRUE)

\* impl Ord for BuildMetadata: no build metadata is below any.
BuildCmp(a, b) == SegsCmp(Split(a, "."), Split(b, "."), FALSE)

\* impl Ord for Version: major, minor, patch, pre, build.
VersionCmp(a, b) ==
    ThenWith(IntCmp(a.major, b.major),
    ThenWith(IntCmp(a.minor, b.minor),
    ThenWith(IntCmp(a.patch, b.patch),
    ThenWith(PrereleaseCmp(a.pre, b.pre),
             BuildCmp(a.build, b.build)))))

VersionLt(a, b) == VersionCmp(a, b) < 0

VersionGe(a, b) == VersionCmp(a, b) >= 0

(***************************************************************************)
(* The npm matcher: src/version/matchers/npm.rs                            *)
(***************************************************************************)
\* Version::parse(rest.trim()).ok().map(kind)
RangeOf(kind, rest) ==
    LET v == VersionParse(Trim(rest))
    IN  IF IsSome(v) THEN Some([kind |-> kind, v |-> Unwrap(v)]) ELSE None

\* parse_wildcard with unwrap_or(0) for ok()?: a major or minor that is not
\* a number counts as 0.
parse_wildcard_default_zero(spec) ==
    LET parts == Split(spec, ".")
        isX(p) == p = <<"x">> \/ p = <<"X">>
        num(p) == IF IsSome(ParseU64(p)) THEN Unwrap(ParseU64(p)) ELSE 0
    IN  IF Len(parts) = 2 /\ isX(parts[2])
        THEN Some([kind |-> "WildcardMajor", major |-> num(parts[1])])
        ELSE IF Len(parts) = 3 /\ isX(parts[3])
        THEN Some([kind |-> "WildcardMinor", major |-> num(parts[1]),
                   minor |-> num(parts[2])])
        ELSE None

\* VersionRange::parse_wildcard: "1.x", "1.X", "1.2.x", "1.2.X"
parse_wildcard(spec) ==
    LET parts == Split(spec, ".")
        isX(p) == p = <<"x">> \/ p = <<"X">>
    IN  IF Len(parts) = 2 /\ isX(parts[2])
        THEN IF IsSome(ParseU64(parts[1]))
             THEN Some([kind |-> "WildcardMajor",
                        major |-> Unwrap(ParseU64(parts[1]))])
             ELSE None
        ELSE IF Len(parts) = 3 /\ isX(parts[3])
        THEN IF IsSome(ParseU64(parts[1])) /\ IsSome(ParseU64(parts[2]))
             THEN Some([kind |-> "WildcardMinor",
                        major |-> Unwrap(ParseU64(parts[1])),
                        minor |-> Unwrap(ParseU64(parts[2]))])
             ELSE None
        ELSE None

\* VersionRange::parse: the first prefix that matches decides the shape.
VersionRange_parse(version_spec) ==
    LET spec == Trim(version_spec)
    IN  IF StartsWith(spec, <<">", "=">>)
        THEN RangeOf("Gte", Drop(spec, 2))
        ELSE IF StartsWith(spec, <<">">>)
        THEN RangeOf("Gt", Drop(spec, 1))
        ELSE IF StartsWith(spec, <<"<", "=">>)
        THEN RangeOf("Lte", Drop(spec, 2))
        ELSE IF StartsWith(spec, <<"<">>)
        THEN RangeOf("Lt", Drop(spec, 1))
        ELSE IF StartsWith(spec, <<"^">>)
        THEN RangeOf("Caret", Drop(spec, 1))
        ELSE IF StartsWith(spec, <<"~">>)
        THEN RangeOf("Tilde", Drop(spec, 1))
        ELSE IF spec = <<"*">>
        THEN Some([kind |-> "Any"])
        ELSE IF IsSome(parse_wildcard(spec))
        THEN parse_wildcard(spec)
        ELSE IF IsSome(VersionParse(spec))
        THEN Some([kind |-> "Exact", v |-> Unwrap(VersionParse(spec))])
        ELSE None

\* satisfies_caret with the 0.x special cases forgotten: ^0.Y.Z treated like
\* ^X.Y.Z (only the major must match).
satisfies_caret_major_only(v, version) ==
    IF VersionLt(version, v) THEN FALSE ELSE version.major = v.major

\* satisfies_caret with the patch test of ^0.0.Z forgotten.
satisfies_caret_no_patch(v, version) ==
    IF VersionLt(version, v) THEN FALSE
    ELSE IF v.major = 0
         THEN IF v.minor = 0
              THEN version.major = 0 /\ version.minor = 0
              ELSE version.major = 0 /\ version.minor = v.minor
         ELSE version.major = v.major

\* The Caret arm of VersionRange::satisfies.
satisfies_caret(v, version) ==
    IF VersionLt(version, v) THEN FALSE
    ELSE IF v.major = 0
         THEN IF v.minor = 0
              THEN version.major = 0 /\ version.minor = 0
                   /\ version.patch = v.patch
              ELSE version.major = 0 /\ version.minor = v.minor
         ELSE version.major = v.major

\* The Tilde arm of VersionRange::satisfies.
satisfies_tilde(v, version) ==
    VersionGe(version, v) /\ version.major = v.major
    /\ version.minor = v.minor

\* The comparison arms (Gte, Gt, Lte, Lt) of VersionRange::satisfies.
satisfies_cmp(kind, v, version) ==
    CASE kind = "Gte" -> VersionCmp(version, v) >= 0
      [] kind = "Gt" -> VersionCmp(version, v) > 0
      [] kind = "Lte" -> VersionCmp(version, v) <= 0
      [] kind = "Lt" -> VersionCmp(version, v) < 0

\* The wildcard arms of VersionRange::satisfies.
satisfies_wildcard(range, version) ==
    IF range.kind = "WildcardMajor"
    THEN version.major = range.major
    ELSE version.major = range.major /\ version.minor = range.minor

\* satisfies with the Any arm answering false.
satisfies_any_rejects(range, version) ==
    CASE range.kind = "Exact" -> version = range.v
      [] range.kind = "Caret" -> satisfies_caret(range.v, version)
      [] range.kind = "Tilde" -> satisfies_tilde(range.v, version)
      [] range.kind \in {"Gte", "Gt", "Lte", "Lt"} ->
            satisfies_cmp(range.kind, range.v, version)
      [] range.kind = "Any" -> FALSE
      [] range.kind \in {"WildcardMajor", "WildcardMinor"} ->
            satisfies_wildcard(range, version)

\* VersionRange::satisfies
satisfies(range, version) ==
    CASE range.kind = "Exact" -> version = range.v
      [] range.kind = "Caret" -> satisfies_caret(range.v, version)
      [] range.kind = "Tilde" -> satisfies_tilde(range.v, version)
      [] range.kind \in {"Gte", "Gt", "Lte", "Lt"} ->
            satisfies_cmp(range.kind, range.v, version)
      [] range.kind = "Any" -> TRUE
      [] range.kind \in {"WildcardMajor", "WildcardMinor"} ->
            satisfies_wildcard(range, version)

\* base_version with the minor of a MAJOR.MINOR.x wildcard dropped.
base_version_major_only(range) ==
    CASE range.kind \in {"Exact", "Caret", "Tilde", "Gte", "Gt", "Lte", "Lt"} ->
            Some(range.v)
      [] range.kind = "Any" -> None
      [] range.kind \in {"WildcardMajor", "WildcardMinor"} ->
            Some(VersionNew(range.major, 0, 0))

\* VersionRange::base_version
base_version(range) ==
    CASE range.kind \in {"Exact", "Caret", "Tilde", "Gte", "Gt", "Lte", "Lt"} ->
            Some(range.v)
      [] range.kind = "Any" -> None
      [] range.kind = "WildcardMajor" -> Some(VersionNew(range.major, 0, 0))
      [] range.kind = "WildcardMinor" ->
            Some(VersionNew(range.major, range.minor, 0))

\* exists_one with unwrap_or(true): a known version that does not parse
\* counts as satisfying.
exists_one_unparsed_true(range, v) ==
    IF IsSome(VersionParse(v)) THEN satisfies(range, Unwrap(VersionParse(v)))
    ELSE TRUE

\* One step of the closure of version_exists: a known version that does not
\* parse counts as not satisfying.
exists_one(range, v) ==
    IF IsSome(VersionParse(v)) THEN satisfies(range, Unwrap(VersionParse(v)))
    ELSE FALSE

\* NpmVersionMatcher::version_exists
version_exists(version_spec, available_versions) ==
    LET range == VersionRange_parse(version_spec)
    IN  IF ~IsSome(range) THEN FALSE
        ELSE \E i \in DOMAIN available_versions :
                exists_one(Unwrap(range), available_versions[i])

\* compare_base with <= for <: a base equal to latest reported Outdated.
compare_base_le(range, latest) ==
    LET base == base_version(range)
    IN  IF ~IsSome(base) THEN "Latest"
        ELSE IF ~VersionLt(latest, Unwrap(base)) THEN "Outdated"
        ELSE "Newer"

\* The verdict once both the range and the latest version parsed and the
\* range does not admit the latest version.
compare_base(range, latest) ==
    LET base == base_version(range)
    IN  IF ~IsSome(base) THEN "Latest"
        ELSE IF VersionLt(Unwrap(base), latest) THEN "Outdated"
        ELSE "Newer"

\* NpmVersionMatcher::compare_to_latest
compare_to_latest(current_version, latest_version) ==
    LET range == VersionRange_parse(current_version)
        latest == VersionParse(latest_version)
    IN  IF ~IsSome(range) THEN "Invalid"
        ELSE IF ~IsSome(latest) THEN "Invalid"
        ELSE IF satisfies(Unwrap(range), Unwrap(latest)) THEN "Latest"
        ELSE compare_base(Unwrap(range), Unwrap(latest))

\* NpmVersionMatcher::registry_type
NpmVersionMatcher_registry_type == "Npm"

(***************************************************************************)
(* The pnpm catalog matcher: src/version/matchers/pnpm.rs.  It hands its   *)
(* arguments to the npm matcher's two functions.                           *)
(***************************************************************************)
\* npm::npm_version_exists: the version_exists of the npm matcher.
npm_version_exists(version_spec, available_versions) ==
    version_exists(version_spec, available_versions)

\* npm::npm_compare_to_latest: the compare_to_latest of the npm matcher.
npm_compare_to_latest(current_version, latest_version) ==
    compare_to_latest(current_version, latest_version)

\* PnpmCatalogMatcher::registry_type
PnpmCatalogMatcher_registry_type == "PnpmCatalog"

\* PnpmCatalogMatcher::version_exists
PnpmCatalogMatcher_version_exists(version_spec, available_versions) ==
    npm_version_exists(version_spec, available_versions)

\* PnpmCatalogMatcher::compare_to_latest with its two arguments exchanged.
PnpmCatalogMatcher_compare_swapped(current_version, latest_version) ==
    npm_compare_to_latest(latest_version, current_version)

\* PnpmCatalogMatcher::compare_to_latest
PnpmCatalogMatcher_compare_to_latest(current_version, latest_version) ==
    npm_compare_to_latest(current_version, latest_version)

(***************************************************************************)
(* Inputs of the matcher.                                                  *)
(***************************************************************************)
\* u64 to decimal string.
RECURSIVE NumStr(_)
NumStr(n) ==
    LET d == <<"0", "1", "2", "3", "4", "5", "6", "7", "8", "9">>
    IN  IF n < 10 THEN <<d[n + 1]>> ELSE NumStr(n \div 10) \o <<d[(n % 10) + 1]>>

VerStr(a, b, c) == NumStr(a) \o <<".">> \o NumStr(b) \o <<".">> \o NumStr(c)

\* Well-formed release versions.
PlainVersions == {VerStr(a, b, c) : a \in 0..MaxNum, b \in 0..MaxNum, c \in 0..MaxNum}

\* Pre-release and build versions, and strings strict semver rejects.
OddVersions ==
    { <<"0", ".", "0", ".", "1", "-", "a">>,
      <<"1", ".", "0", ".", "0", "-", "a">>,
      <<"1", ".", "0", ".", "0", "+", "b">>,
      <<"1", ".", "0">>,
      <<>>,
      <<"0", "1", ".", "0", ".", "0">>,
      <<"v", "1", ".", "0", ".", "0">>,
      <<"1", ".", "0", ".", "0", " ">> }

VersionStrings == PlainVersions \cup OddVersions

\* The known versions the longer lists are made of.
ListVersions ==
    { VerStr(1, 0, 0), VerStr(0, 1, 1), <<"1", ".", "0">>,
      <<"1", ".", "0", ".", "0", "-", "a">> }

\* The text after the operator of a range spec.
BaseStrings ==
    {VerStr(a, b, c) : a \in 0..MaxBase, b \in 0..MaxBase, c \in 0..MaxBase}
    \cup { <<"0", ".", "0", ".", "1", "-", "a">>,
           <<"1", ".", "0">>,
           <<"0", "1", ".", "0", ".", "0">> }

Prefixes ==
    { <<>>, <<"^">>, <<"~">>, <<">", "=">>, <<">">>, <<"<", "=">>, <<"<">>,
      <<"=">>, <<" ", ">", " ">> }

WildcardStrings ==
    {NumStr(a) \o <<".">> \o x : a \in 0..MaxBase, x \in {<<"x">>, <<"X">>}}
    \cup {NumStr(a) \o <<".">> \o NumStr(b) \o <<".">> \o x :
            a \in 0..MaxBase, b \in 0..MaxBase, x \in {<<"x">>, <<"X">>}}
    \cup { <<"*">>, <<" ", "*">>, <<"x">>, <<"x", ".", "x">>,
           <<"0", "1", ".", "x">>, <<"+", "1", ".", "x">>,
           <<"1", ".", "x", ".", "x">>, <<"1", ".", "0", ".", "0", ".", "x">>,
           <<"1", ".", "x", " ">> }

SpecStrings == {p \o b : p \in Prefixes, b \in BaseStrings} \cup WildcardStrings

\* Lists of at most one known version over all version strings, and longer
\* lists over ListVersions.
VersionLists ==
    {<<>>} \cup {<<v>> : v \in VersionStrings}
    \cup UNION {[1..n -> ListVersions] : n \in 2..MaxVersions}

(***************************************************************************)
(* The manifest parsers.  A parser hands the document to tree-sitter and   *)
(* walks the syntax tree it gets back; the text of a node is the slice of  *)
(* the document between the node's byte offsets.                           *)
(***************************************************************************)
\* &content[from..to]: byte offsets count from 0 and `to` is exclusive.
Slice(content, from, to) == SubSeq(content, from + 1, to)

\* str::trim_start_matches(c): drops every leading c.
trim_start_matches(s, c) == Drop(s, PrefixLen(s, {c}))

\* str::trim_end_matches(c): drops every trailing c.
trim_end_matches(s, c) == Take(s, Len(s) - SuffixLen(s, {c}))

\* The sequences of a sequence of sequences, joined in order.
RECURSIVE Concat(_)
Concat(seqs) == IF seqs = <<>> THEN <<>> ELSE Head(seqs) \o Concat(Tail(seqs))

\* A position in a document: byte offset, row and column, all from 0.
Origin == [byte |-> 0, row |-> 0, column |-> 0]

\* The position n bytes further on the same line.
At(p, n) == [byte |-> p.byte + n, row |-> p.row, column |-> p.column + n]

\* The position after a line break at p.
NewLine(p) == [byte |-> p.byte + 1, row |-> p.row + 1, column |-> 0]

\* A tree-sitter node: its kind, byte range, start position and children.
Node(kind, start, end_byte, children) ==
    [kind |-> kind, start_byte |-> start.byte, end_byte |-> end_byte,
     row |-> start.row, column |-> start.column, children |-> children]

\* A node without children that spans the text raw.
Leaf(kind, raw, start) == Node(kind, start, start.byte + Len(raw), <<>>)

\* The node of a one-character token.
Token(kind, start) == Node(kind, start, start.byte + 1, <<>>)

\* Node::child_by_field_name on a pair node: the children of a JSON pair are
\* its key, the colon and its value.
child_by_field_name(node, field) ==
    IF field = "key" THEN node.children[1] ELSE node.children[3]

\* A record a parser emits.
PackageInfo(name, version, registry_type, start_offset, end_offset, line, column) ==
    [name |-> name, version |-> version, commit_hash |-> None,
     registry_type |-> registry_type, start_offset |-> start_offset,
     end_offset |-> end_offset, line |-> line, column |-> column]

(***************************************************************************)
(* package.json.  A JSON value is a string or number literal (its text as  *)
(* written, quotes included) or an object, a sequence of <<key, value>>    *)
(* members.  JsonValue writes a value at position p, one member per line   *)
(* indented by two spaces, and gives the text, the node tree-sitter-json   *)
(* builds for it and the position after it.                                *)
(***************************************************************************)
JsonLiteral(type, raw) == [type |-> type, raw |-> raw]

JsonObject(members) == [type |-> "object", members |-> members]

\* The text, node and next position of a literal written at p.
LiteralAt(v, p) ==
    [text |-> v.raw, node |-> Leaf(v.type, v.raw, p), next |-> At(p, Len(v.raw))]

\* An object opened at p around the members body.
JsonObjectAt(p, body) ==
    [text |-> <<"{", "\n">> \o body.text \o <<"}">>,
     node |-> Node("object", p, body.next.byte + 1,
                   <<Token("{", p)>> \o body.nodes \o <<Token("}", body.next)>>),
     next |-> At(body.next, 1)]

\* The member with this key written at p: its value is val, and a comma
\* follows it unless it is the last one.
JsonPairAt(key, last, p, val) ==
    [text |-> <<" ", " ">> \o key \o <<":", " ">> \o val.text
                \o (IF last THEN <<>> ELSE <<",">>) \o <<"\n">>,
     nodes |-> <<Node("pair", At(p, 2), val.node.end_byte,
                      <<Leaf("string", key, At(p, 2)),
                        Token(":", At(p, Len(key) + 2)),
                        val.node>>)>>
               \o (IF last THEN <<>> ELSE <<Token(",", val.next)>>),
     next |-> NewLine(At(val.next, IF last THEN 0 ELSE 1))]

\* What was written first, followed by what was written after it.
Joined(one, rest) ==
    [text |-> one.text \o rest.text,
     nodes |-> one.nodes \o rest.nodes,
     next |-> rest.next]

Nothing(p) == [text |-> <<>>, nodes |-> <<>>, next |-> p]

RECURSIVE JsonValue(_, _)
RECURSIVE JsonMembers(_, _, _)
RECURSIVE JsonMembersAfter(_, _, _)
JsonValue(v, p) ==
    IF v.type # "object"
    THEN LiteralAt(v, p)
    ELSE JsonObjectAt(p, JsonMembers(v.members, 1, NewLine(At(p, 1))))

JsonMembers(members, i, p) ==
    IF i > Len(members)
    THEN Nothing(p)
    ELSE JsonMembersAfter(
             members, i,
             JsonPairAt(members[i][1], i = Len(members), p,
                        JsonValue(members[i][2], At(p, Len(members[i][1]) + 4))))

JsonMembersAfter(members, i, one) ==
    Joined(one, JsonMembers(members, i + 1, one.next))

\* The document and syntax tree of a root value written as top.
JsonDocumentOf(top) ==
    [content |-> top.text \o <<"\n">>,
     tree |-> Node("document", Origin, top.next.byte, <<top.node>>)]

\* The document of a JSON value and its syntax tree.
JsonDocument(root) == JsonDocumentOf(JsonValue(root, Origin))

\* A comment line, which tree-sitter-json takes as an extra of the document.
JsonComment == <<"/", "/", " ", "x">>

\* The document and syntax tree of a comment line followed by a root value
\* written as top: the comment is the first child of the document node.
JsonCommentedDocumentOf(top) ==
    [content |-> JsonComment \o <<"\n">> \o top.text \o <<"\n">>,
     tree |-> Node("document", Origin, top.next.byte,
                   <<Leaf("comment", JsonComment, Origin), top.node>>)]

\* The document of a JSON value below a comment line, and its syntax tree.
JsonCommentedDocument(root) ==
    JsonCommentedDocumentOf(JsonValue(root, NewLine(At(Origin, Len(JsonComment)))))

\* PackageJsonParser::get_string_value: the text of the node without the
\* quotes around it.
get_string_value(node, content) ==
    trim_end_matches(
        trim_start_matches(Trim(Slice(content, node.start_byte, node.end_byte)),
                           "\""),
        "\"")

DEPENDENCY_FIELDS_no_peer ==
    {<<"d", "e", "p", "e", "n", "d", "e", "n", "c", "i", "e", "s">>,
     <<"d", "e", "v", "D", "e", "p", "e", "n", "d", "e", "n", "c", "i", "e", "s">>}

\* PackageJsonParser::DEPENDENCY_FIELDS.
DEPENDENCY_FIELDS ==
    {<<"d", "e", "p", "e", "n", "d", "e", "n", "c", "i", "e", "s">>,
     <<"d", "e", "v", "D", "e", "p", "e", "n", "d", "e", "n", "c", "i", "e", "s">>,
     <<"p", "e", "e", "r", "D", "e", "p", "e", "n", "d", "e", "n", "c", "i", "e", "s">>}

\* The body of the loop of extract_packages_from_object: the record of one
\* child of a dependency object, if it is a pair with a string value.
packages_from_child(child, content) ==
    IF child.kind # "pair" THEN <<>>
    ELSE LET key_node == child_by_field_name(child, "key")
             value_node == child_by_field_name(child, "value")
         IN  IF value_node.kind # "string" THEN <<>>
             ELSE <<PackageInfo(get_string_value(key_node, content),
                                get_string_value(value_node, content),
                                "Npm",
                                value_node.start_byte + 1,
                                value_node.end_byte - 1,
                                value_node.row,
                                value_node.column + 1)>>

\* PackageJsonParser::extract_packages_from_object.
extract_packages_from_object(object_node, content) ==
    Concat([i \in DOMAIN object_node.children |->
                packages_from_child(object_node.children[i], content)])

\* The body of the loop of extract_dependencies: the records of one child of
\* the root object.
dependencies_from_child(child, content) ==
    IF child.kind # "pair" THEN <<>>
    ELSE LET key_text == get_string_value(child_by_field_name(child, "key"), content)
             value_node == child_by_field_name(child, "value")
         IN  IF key_text \notin DEPENDENCY_FIELDS THEN <<>>
             ELSE IF value_node.kind = "object"
                  THEN extract_packages_from_object(value_node, content)
                  ELSE <<>>

\* PackageJsonParser::extract_dependencies.
PackageJsonParser_extract_dependencies(object_node, content) ==
    Concat([i \in DOMAIN object_node.children |->
                dependencies_from_child(object_node.children[i], content)])

\* PackageJsonParser::parse.
PackageJsonParser_parse(content, tree) ==
    IF tree.children # <<>> /\ tree.children[1].kind = "object"
    THEN PackageJsonParser_extract_dependencies(tree.children[1], content)
    ELSE <<>>

(***************************************************************************)
(* The package.json documents the parser is run on.                        *)
(***************************************************************************)
\* The most members of the dependency object that varies.
MaxPairs == 2

\* String literals as written: plain, empty, and one that ends in an escaped
\* quote.
JsonStrings ==
    {<<"\"", "1", ".", "0", ".", "0", "\"">>,
     <<"\"", "\"">>,
     <<"\"", "1", "\\", "\"", "\"">>}

\* The values of the members of a dependency object: strings, a number and
\* an object.
JsonDependencyValues ==
    {JsonLiteral("string", s) : s \in JsonStrings}
    \cup {JsonLiteral("number", <<"1">>),
          JsonObject(<<<<<<"\"", "m", "s", "\"">>, JsonLiteral("string", <<"\"", "1", ".", "0", ".", "0", "\"">>)>>>>)}

JsonDependencyMembers ==
    {<<<<"\"", "m", "s", "\"">>, v>> : v \in JsonDependencyValues}
    \cup {<<<<"\"", "q", "s", "\"">>, JsonLiteral("string", <<"\"", "^", "2", "\"">>)>>}

JsonDependencyObjects ==
    {JsonObject(m) : m \in UNION {[1..n -> JsonDependencyMembers] : n \in 0..MaxPairs}}

\* Top-level members around the one that varies: none, a member that is not
\* a dependency field, a dependency field whose value is not an object, a
\* dependency field nested in another object, and a dependency object.
JsonFixedMembers ==
    {<<>>,
     <<<<<<"\"", "n", "a", "m", "e", "\"">>, JsonLiteral("string", <<"\"", "1", ".", "0", ".", "0", "\"">>)>>>>,
     <<<<<<"\"", "d", "e", "p", "e", "n", "d", "e", "n", "c", "i", "e", "s", "\"">>, JsonLiteral("string", <<"\"", "1", ".", "0", ".", "0", "\"">>)>>>>,
     <<<<<<"\"", "c", "o", "n", "f", "i", "g", "\"">>, JsonObject(<<<<<<"\"", "d", "e", "p", "e", "n", "d", "e", "n", "c", "i", "e", "s", "\"">>, JsonObject(<<<<<<"\"", "m", "s", "\"">>, JsonLiteral("string", <<"\"", "1", ".", "0", ".", "0", "\"">>)>>>>)>>>>)>>>>,
     <<<<<<"\"", "d", "e", "v", "D", "e", "p", "e", "n", "d", "e", "n", "c", "i", "e", "s", "\"">>, JsonObject(<<<<<<"\"", "q", "s", "\"">>, JsonLiteral("string", <<"\"", "^", "2", "\"">>)>>>>)>>>>}

JsonTopLevelKeys ==
    {<<"\"", "d", "e", "p", "e", "n", "d", "e", "n", "c", "i", "e", "s", "\"">>,
     <<"\"", "d", "e", "v", "D", "e", "p", "e", "n", "d", "e", "n", "c", "i", "e", "s", "\"">>,
     <<"\"", "p", "e", "e", "r", "D", "e", "p", "e", "n", "d", "e", "n", "c", "i", "e", "s", "\"">>,
     <<"\"", "c", "o", "n", "f", "i", "g", "\"">>}

\* The roots of the documents: an object of up to three members, or a value
\* that is not an object.
JsonRoots ==
    {JsonObject(a \o <<<<k, o>>>> \o b) :
        a \in JsonFixedMembers, b \in JsonFixedMembers,
        k \in JsonTopLevelKeys, o \in JsonDependencyObjects}
    \cup {JsonLiteral("string", <<"\"", "1", ".", "0", ".", "0", "\"">>), JsonObject(<<>>)}

(***************************************************************************)
(* Cargo.toml.  A TOML value is a literal (a string as written, quotes     *)
(* included, or an integer) or an inline table, a sequence of <<key,       *)
(* value>> pairs; a key is its kind and its text.  A document is a list of *)
(* pairs before the first table and a list of tables, each with the kind   *)
(* and text of the key in its header and its pairs, one per line.          *)
(* TomlValue, TomlTable and TomlDocument write them and give the text and  *)
(* the nodes tree-sitter-toml-ng builds for it.                            *)
(***************************************************************************)
TomlLiteral(type, raw) == [type |-> type, raw |-> raw]

TomlInlineTable(pairs) == [type |-> "inline_table", pairs |-> pairs]

TomlKey(kind, raw) == [kind |-> kind, raw |-> raw]

TomlTableOf(key, pairs) == [key |-> key, pairs |-> pairs]

\* An inline table opened at p around the pairs body.
TomlInlineTableAt(p, body) ==
    [text |-> <<"{", " ">> \o body.text \o <<" ", "}">>,
     node |-> Node("inline_table", p, body.next.byte + 2,
                   <<Token("{", p)>> \o body.nodes
                       \o <<Token("}", At(body.next, 1))>>),
     next |-> At(body.next, 2)]

\* The pair with this key written at p: its value is val.
TomlPairAt(key, p, val) ==
    [text |-> key.raw \o <<" ", "=", " ">> \o val.text,
     nodes |-> <<Node("pair", p, val.node.end_byte,
                      <<Leaf(key.kind, key.raw, p),
                        Token("=", At(p, Len(key.raw) + 1)),
                        val.node>>)>>,
     next |-> val.next]

\* A pair of an inline table followed by a comma and a space.
WithComma(one) ==
    [text |-> one.text \o <<",", " ">>,
     nodes |-> one.nodes \o <<Token(",", one.next)>>,
     next |-> At(one.next, 2)]

\* A pair of a table followed by the end of its line.
WithNewLine(one) ==
    [text |-> one.text \o <<"\n">>, nodes |-> one.nodes, next |-> NewLine(one.next)]

RECURSIVE TomlValue(_, _)
RECURSIVE TomlInlinePairs(_, _, _)
RECURSIVE TomlInlinePairsAfter(_, _, _)
RECURSIVE TomlPair(_, _)
TomlValue(v, p) ==
    IF v.type # "inline_table"
    THEN LiteralAt(v, p)
    ELSE TomlInlineTableAt(p, TomlInlinePairs(v.pairs, 1, At(p, 2)))

TomlInlinePairs(pairs, i, p) ==
    IF i > Len(pairs)
    THEN Nothing(p)
    ELSE TomlInlinePairsAfter(
             pairs, i,
             IF i = Len(pairs) THEN TomlPair(pairs[i], p)
             ELSE WithComma(TomlPair(pairs[i], p)))

TomlInlinePairsAfter(pairs, i, one) ==
    Joined(one, TomlInlinePairs(pairs, i + 1, one.next))

TomlPair(pair, p) ==
    TomlPairAt(pair[1], p, TomlValue(pair[2], At(p, Len(pair[1].raw) + 3)))

\* The pairs of a table or of the top of the document, one per line.
RECURSIVE TomlLines(_, _, _)
RECURSIVE TomlLinesAfter(_, _, _)
TomlLines(pairs, i, p) ==
    IF i > Len(pairs)
    THEN Nothing(p)
    ELSE TomlLinesAfter(pairs, i, WithNewLine(TomlPair(pairs[i], p)))

TomlLinesAfter(pairs, i, one) ==
    Joined(one, TomlLines(pairs, i + 1, one.next))

\* A table headed at p with this key: its pairs are body, and an empty line
\* follows.
TomlTableAt(key, p, body) ==
    [text |-> <<"[">> \o key.raw \o <<"]", "\n">> \o body.text \o <<"\n">>,
     nodes |-> <<Node("table", p, body.next.byte - 1,
                      <<Token("[", p), Leaf(key.kind, key.raw, At(p, 1)),
                        Token("]", At(p, Len(key.raw) + 1))>> \o body.nodes)>>,
     next |-> NewLine(body.next)]

\* A table: its header line, its pairs and an empty line.
TomlTable(t, p) ==
    TomlTableAt(t.key, p,
                TomlLines(t.pairs, 1, NewLine(At(p, Len(t.key.raw) + 2))))

RECURSIVE TomlTables(_, _, _)
RECURSIVE TomlTablesAfter(_, _, _)
TomlTables(tables, i, p) ==
    IF i > Len(tables)
    THEN Nothing(p)
    ELSE TomlTablesAfter(tables, i, TomlTable(tables[i], p))

TomlTablesAfter(tables, i, one) ==
    Joined(one, TomlTables(tables, i + 1, one.next))

\* The document and syntax tree of the pairs top before the first table
\* followed by the tables.
TomlDocumentOf(written) ==
    [content |-> written.text,
     tree |-> Node("document", Origin, written.next.byte, written.nodes)]

TomlTablesFrom(tables, top) == Joined(top, TomlTables(tables, 1, top.next))

\* The document of the pairs and tables and its syntax tree.
TomlDocument(pairs, tables) ==
    TomlDocumentOf(TomlTablesFrom(tables, TomlLines(pairs, 1, Origin)))

\* CargoTomlParser::DEPENDENCY_TABLES.
DEPENDENCY_TABLES ==
    {<<"d", "e", "p", "e", "n", "d", "e", "n", "c", "i", "e", "s">>,
     <<"d", "e", "v", "-", "d", "e", "p", "e", "n", "d", "e", "n", "c", "i", "e", "s">>,
     <<"b", "u", "i", "l", "d", "-", "d", "e", "p", "e", "n", "d", "e", "n", "c", "i", "e", "s">>}

\* The version and position the parser takes from a string node, in
\* extract_package_from_pair and in extract_version_from_inline_table alike.
string_version_info(child, content) ==
    [version |-> trim_end_matches(
                     trim_start_matches(
                         Trim(Slice(content, child.start_byte, child.end_byte)),
                         "\""),
                     "\""),
     start_offset |-> child.start_byte + 1,
     end_offset |-> child.end_byte - 1,
     line |-> child.row,
     column |-> child.column + 1]

\* The inner loop of extract_version_from_inline_table over the children of
\* one pair, from child i on: the first string after a bare key `version`.
RECURSIVE inline_pair_version(_, _, _, _)
inline_pair_version(children, i, is_version_key, content) ==
    IF i > Len(children) THEN None
    ELSE IF children[i].kind = "bare_key"
    THEN inline_pair_version(
             children, i + 1,
             Slice(content, children[i].start_byte, children[i].end_byte)
                 = <<"v", "e", "r", "s", "i", "o", "n">>,
             content)
    ELSE IF children[i].kind = "string" /\ is_version_key
    THEN Some(string_version_info(children[i], content))
    ELSE inline_pair_version(children, i + 1, is_version_key, content)

\* The outer loop of extract_version_from_inline_table, from child i on.
RECURSIVE inline_table_version(_, _, _)
inline_table_version(children, i, content) ==
    IF i > Len(children) THEN None
    ELSE LET found == IF children[i].kind = "pair"
                      THEN inline_pair_version(children[i].children, 1, FALSE,
                                               content)
                      ELSE None
         IN  IF IsSome(found) THEN found
             ELSE inline_table_version(children, i + 1, content)

\* CargoTomlParser::extract_version_from_inline_table.
extract_version_from_inline_table(table_node, content) ==
    inline_table_version(table_node.children, 1, content)

\* The loop of extract_package_from_pair from child i on: the name and the
\* version found once every child is seen.
RECURSIVE pair_children(_, _, _, _, _)
pair_children(children, i, package_name, version_info, content) ==
    IF i > Len(children)
    THEN [package_name |-> package_name, version_info |-> version_info]
    ELSE IF children[i].kind \in {"bare_key", "dotted_key"}
    THEN pair_children(
             children, i + 1,
             Some(Slice(content, children[i].start_byte, children[i].end_byte)),
             version_info, content)
    ELSE IF children[i].kind = "string"
    THEN pair_children(children, i + 1, package_name,
                       Some(string_version_info(children[i], content)), content)
    ELSE IF children[i].kind = "inline_table"
    THEN pair_children(children, i + 1, package_name,
                       extract_version_from_inline_table(children[i], content),
                       content)
    ELSE pair_children(children, i + 1, package_name, version_info, content)

\* CargoTomlParser::extract_package_from_pair.
extract_package_from_pair(pair_node, content) ==
    LET found == pair_children(pair_node.children, 1, None, None, content)
    IN  IF IsSome(found.package_name) /\ IsSome(found.version_info)
        THEN LET info == Unwrap(found.version_info)
             IN  <<PackageInfo(Unwrap(found.package_name), info.version,
                               "CratesIo", info.start_offset, info.end_offset,
                               info.line, info.column)>>
        ELSE <<>>

\* The name in the header of a table: the text of its first bare or dotted
\* key.
RECURSIVE table_name(_, _, _)
table_name(children, i, content) ==
    IF i > Len(children) THEN None
    ELSE IF children[i].kind \in {"bare_key", "dotted_key"}
    THEN Some(Slice(content, children[i].start_byte, children[i].end_byte))
    ELSE table_name(children, i + 1, content)

\* CargoTomlParser::process_table.
process_table(table_node, content) ==
    IF table_node.children = <<>> \/ table_node.children[1].kind # "["
    THEN <<>>
    ELSE LET name == table_name(table_node.children, 1, content)
         IN  IF ~IsSome(name) \/ Unwrap(name) \notin DEPENDENCY_TABLES
             THEN <<>>
             ELSE Concat([i \in DOMAIN table_node.children |->
                     IF table_node.children[i].kind = "pair"
                     THEN extract_package_from_pair(table_node.children[i],
                                                    content)
                     ELSE <<>>])

\* CargoTomlParser::extract_dependencies.
CargoTomlParser_extract_dependencies(root, content) ==
    Concat([i \in DOMAIN root.children |->
                IF root.children[i].kind = "table"
                THEN process_table(root.children[i], content)
                ELSE <<>>])

\* CargoTomlParser::parse.
CargoTomlParser_parse(content, tree) ==
    CargoTomlParser_extract_dependencies(tree, content)

(***************************************************************************)
(* The Cargo.toml documents the parser is run on.                          *)
(***************************************************************************)
\* String literals as written: a basic string, an empty one and a literal
\* string.
TomlStrings ==
    {<<"\"", "1", ".", "0", "\"">>,
     <<"\"", "\"">>,
     <<"'", "1", ".", "0", "'">>}

VersionEntry(raw) == <<TomlKey("bare_key", <<"v", "e", "r", "s", "i", "o", "n">>), TomlLiteral("string", raw)>>

PathEntry == <<TomlKey("bare_key", <<"p", "a", "t", "h">>), TomlLiteral("string", <<"\"", "x", "\"">>)>>

\* The values of the pairs of a dependency table: strings, an integer,
\* inline tables with a version entry (first or second) and one without.
TomlDependencyValues ==
    {TomlLiteral("string", s) : s \in TomlStrings}
    \cup {TomlLiteral("integer", <<"1">>),
          TomlInlineTable(<<VersionEntry(<<"\"", "1", ".", "0", "\"">>)>>),
          TomlInlineTable(<<PathEntry, VersionEntry(<<"\"", "2", ".", "0", "\"">>)>>),
          TomlInlineTable(<<PathEntry>>)}

TomlDependencyPairs ==
    {<<TomlKey("bare_key", <<"s", "e", "r", "d", "e">>), v>> : v \in TomlDependencyValues}
    \cup {<<TomlKey("bare_key", <<"t", "o", "k", "i", "o">>), TomlLiteral("string", <<"\"", "2", ".", "0", "\"">>)>>}

TomlTableKeys ==
    {TomlKey("bare_key", <<"d", "e", "p", "e", "n", "d", "e", "n", "c", "i", "e", "s">>),
     TomlKey("bare_key", <<"d", "e", "v", "-", "d", "e", "p", "e", "n", "d", "e", "n", "c", "i", "e", "s">>),
     TomlKey("bare_key", <<"b", "u", "i", "l", "d", "-", "d", "e", "p", "e", "n", "d", "e", "n", "c", "i", "e", "s">>),
     TomlKey("dotted_key", <<"w", "o", "r", "k", "s", "p", "a", "c", "e", ".", "d", "e", "p", "e", "n", "d", "e", "n", "c", "i", "e", "s">>),
     TomlKey("bare_key", <<"p", "a", "c", "k", "a", "g", "e">>)}

\* The table that varies: any of the table names with up to MaxPairs pairs.
TomlDependencyTables ==
    {TomlTableOf(k, m) :
        k \in TomlTableKeys,
        m \in UNION {[1..n -> TomlDependencyPairs] : n \in 0..MaxPairs}}

\* Tables around the one that varies: none, a table that is not a
\* dependency table, and a dependency table.
TomlFixedTables ==
    {<<>>,
     <<TomlTableOf(TomlKey("bare_key", <<"p", "a", "c", "k", "a", "g", "e">>), <<VersionEntry(<<"\"", "1", ".", "0", "\"">>)>>)>>,
     <<TomlTableOf(TomlKey("bare_key", <<"d", "e", "v", "-", "d", "e", "p", "e", "n", "d", "e", "n", "c", "i", "e", "s">>),
                   <<<<TomlKey("bare_key", <<"t", "o", "k", "i", "o">>), TomlLiteral("string", <<"\"", "2", ".", "0", "\"">>)>>>>)>>}

\* The pairs before the first table: none, or one that looks like a
\* dependency.
TomlTopPairs ==
    {<<>>, <<<<TomlKey("bare_key", <<"t", "o", "k", "i", "o">>), TomlLiteral("string", <<"\"", "2", ".", "0", "\"">>)>>>>}

TomlManifests ==
    {[pairs |-> top, tables |-> a \o <<t>> \o b] :
        top \in TomlTopPairs, a \in TomlFixedTables, b \in TomlFixedTables,
        t \in TomlDependencyTables}

(***************************************************************************)
(* The registry clients.  A timestamp string is either not RFC 3339 or a   *)
(* local time with a UTC offset, both in whole hours; the body of an       *)
(* answer is either not the expected JSON or the decoded response.         *)
(***************************************************************************)
Timestamp(local, offset) == [rfc3339 |-> TRUE, local |-> local, offset |-> offset]

NotADate == [rfc3339 |-> FALSE, local |-> 0, offset |-> 0]

\* DateTime::parse_from_rfc3339(ts).ok(): the date and time with its offset.
parse_from_rfc3339(ts) == IF ts.rfc3339 THEN Some(ts) ELSE None

\* DateTime::with_timezone(&Utc): the instant, in hours.
with_timezone_utc(dt) == dt.local - dt.offset

\* Option::map(|dt| dt.with_timezone(&Utc)).
utc_timestamp(parsed) ==
    IF IsSome(parsed) THEN Some(with_timezone_utc(Unwrap(parsed))) ELSE None

timestamp_le_none_last(a, b) ==
    b = None \/ (a # None /\ Unwrap(a) <= Unwrap(b))

\* a.cmp(b) is not Greater, for Option<DateTime<Utc>>: None is less than any
\* Some.
timestamp_le(a, b) ==
    a = None \/ (b # None /\ Unwrap(a) <= Unwrap(b))

\* One step of the stable sort: x goes behind every element of the sorted
\* list that is not greater than it.
insert_sorted(sorted, x) ==
    LET k == Cardinality({i \in DOMAIN sorted : timestamp_le(sorted[i][2], x[2])})
    IN  SubSeq(sorted, 1, k) \o <<x>> \o SubSeq(sorted, k + 1, Len(sorted))

\* versions.sort_by(|(_, a), (_, b)| a.cmp(b)): a stable sort of the
\* (version, timestamp) pairs by timestamp.
RECURSIVE sort_by(_)
sort_by(pairs) ==
    IF pairs = <<>> THEN <<>>
    ELSE insert_sorted(sort_by(Take(pairs, Len(pairs) - 1)), pairs[Len(pairs)])

\* .map(|(v, _)| v).collect()
first_components(pairs) == [i \in DOMAIN pairs |-> pairs[i][1]]

\* PackageVersions::new.
PackageVersions_new(versions) == [versions |-> versions, dist_tags |-> <<>>]

\* PackageVersions::with_dist_tags.
PackageVersions_with_dist_tags(versions, dist_tags) ==
    [versions |-> versions, dist_tags |-> dist_tags]

\* PackageVersions::latest.
PackageVersions_latest(self) ==
    IF self.versions = <<>> THEN None ELSE Some(Head(self.versions))

Ok(value) == [ok |-> TRUE, value |-> value]

Err(error) == [ok |-> FALSE, value |-> error]

\* RegistryError::NotFound(package_name).
RegistryError_NotFound(package_name) ==
    [kind |-> "NotFound", detail |-> package_name]

\* RegistryError::InvalidResponse(message); the message is kept as what was
\* wrong, the status or the body.
RegistryError_InvalidResponse(message) ==
    [kind |-> "InvalidResponse", detail |-> message]

response_error_only_200(response) ==
    IF response.status = 404
    THEN Some(Err(RegistryError_NotFound(response.package_name)))
    ELSE IF response.status # 200
    THEN Some(Err(RegistryError_InvalidResponse("status")))
    ELSE IF ~response.body.valid
    THEN Some(Err(RegistryError_InvalidResponse("body")))
    ELSE None

\* The checks of the status and of the body both clients make before they
\* look at the versions: the error they return, or None.
response_error(response) ==
    IF response.status = 404
    THEN Some(Err(RegistryError_NotFound(response.package_name)))
    ELSE IF response.status \notin 200..299
    THEN Some(Err(RegistryError_InvalidResponse("status")))
    ELSE IF ~response.body.valid
    THEN Some(Err(RegistryError_InvalidResponse("body")))
    ELSE None

\* The (version, timestamp) pair NpmRegistry builds for a key of versions.
npm_timestamped(package_info, v) ==
    <<v, IF v \in DOMAIN package_info.time
         THEN utc_timestamp(parse_from_rfc3339(package_info.time[v]))
         ELSE None>>

\* NpmRegistry::fetch_all_versions; keys is package_info.versions.into_keys(),
\* the keys in the order the HashMap iterates them.
NpmRegistry_fetch_all_versions(response, keys) ==
    IF IsSome(response_error(response)) THEN Unwrap(response_error(response))
    ELSE Ok(PackageVersions_with_dist_tags(
                first_components(
                    sort_by([i \in DOMAIN keys |->
                                npm_timestamped(response.body, keys[i])])),
                response.body.dist_tags))

\* .filter(|v| !v.yanked) with yanked versions kept.
not_yanked_keep_all(versions) == versions

\* .filter(|v| !v.yanked)
RECURSIVE not_yanked(_)
not_yanked(versions) ==
    IF versions = <<>> THEN <<>>
    ELSE (IF Head(versions).yanked THEN <<>> ELSE <<Head(versions)>>)
             \o not_yanked(Tail(versions))

\* The (num, timestamp) pair CratesIoRegistry builds for a version.
crate_timestamped(v) == <<v.num, utc_timestamp(parse_from_rfc3339(v.created_at))>>

\* The versions of a crates.io response once the status and body are
\* accepted.
crate_versions(kept) ==
    first_components(sort_by([i \in DOMAIN kept |-> crate_timestamped(kept[i])]))

\* CratesIoRegistry::fetch_all_versions.
CratesIoRegistry_fetch_all_versions(response) ==
    IF IsSome(response_error(response)) THEN Unwrap(response_error(response))
    ELSE Ok(PackageVersions_new(crate_versions(not_yanked(response.body.versions))))

(***************************************************************************)
(* The answers the clients are run on.                                     *)
(***************************************************************************)
\* The most versions in an answer.
MaxEntries == 3

AllVersionNames == <<"1.0.0", "2.0.0", "1.5.0", "2.1.0", "3.0.0">>

VersionNames == {AllVersionNames[i] : i \in 1..MaxEntries}

\* Timestamp strings: one in UTC, two at the same local time of which the
\* one with an offset of one hour is the earlier instant, and one that is
\* not a date.
TimeStrings == {Timestamp(1, 0), Timestamp(3, 0), Timestamp(3, 1), NotADate}

\* The injective sequences over a set: the orders it can be listed in.
Orders(S) ==
    {f \in [1..Cardinality(S) -> S] : \A i, j \in DOMAIN f : f[i] = f[j] => i = j}

VersionSets == {S \in SUBSET VersionNames : Cardinality(S) <= MaxEntries}

\* The dist-tags of an npm answer: none, or latest naming a version.
DistTags == {<<>>} \cup {[tag \in {"latest"} |-> v] : v \in VersionNames}

\* The decoded answer of the npm registry with these versions, dist-tags and
\* timestamps.
NpmBody(versions, dist_tags, time) ==
    [valid |-> TRUE, versions |-> versions, dist_tags |-> dist_tags, time |-> time]

\* The decoded answer of crates.io that lists these version numbers in this
\* order, with these yanked flags and created_at strings.
CratesIoBody(nums, yanked, created_at) ==
    [valid |-> TRUE,
     versions |-> [i \in DOMAIN nums |->
                      [num |-> nums[i], yanked |-> yanked[i],
                       created_at |-> created_at[i]]]]

\* A body that is not the expected JSON.
NotJson == [valid |-> FALSE]

\* The decoded answer of a registry that lists no version.
EmptyBody(registry) ==
    IF registry = "npm" THEN NpmBody({}, <<>>, <<>>)
    ELSE CratesIoBody(<<>>, <<>>, <<>>)

\* The statuses an answer comes with: two successes, a redirect, not found
\* and a server error.
Statuses == {200, 201, 301, 404, 500}

PackageNames == {"lodash", "@types/node"}

(***************************************************************************)
(* State.                                                                  *)
(***************************************************************************)
VARIABLES
    version_spec,        \* matcher: the spec string handed to the matcher
    available_versions,  \* matcher: the list of known version strings
    latest_version,      \* matcher: the latest version handed to compare_to_latest
    mpc,                 \* matcher: "input", or the call made
    mresult,             \* matcher: the value the last call returned
    doc,                 \* engine: the dependency records parsed from the document
    known,               \* engine: package name -> known versions (oldest first)
    diagnostics,         \* engine: the diagnostics generated for doc
    dpc,                 \* engine: "input" or "done"
    pkg_rows,            \* cache: the rows of table packages
    ver_rows,            \* cache: the rows of table versions
    pkg_seq,             \* cache: the AUTOINCREMENT counter of packages.id
    ver_seq,             \* cache: the AUTOINCREMENT counter of versions.id
    last_upsert,         \* cache: key -> the arguments of the latest upsert for it
    got,                 \* cache: what the latest get returned
    n_upserts,           \* cache: the number of upserts so far (the clock)
    sqlite_master,       \* cache: the schema objects of the database file
    opened,              \* cache: what each Cache::new on the file returned
    cache,               \* backend: Backend.cache, None or Some(the rows)
    parsers,             \* backend: Backend.parsers, the registry types with a parser
    cache_guard,         \* backend: who holds the cache mutex
    handlers,            \* backend: the did_open calls, in order of arrival
    lifecycle,           \* backend: how far initialize/initialized/shutdown got
    server_sent,         \* backend: what those three handlers sent to the client
    scan,                \* backend: the background refresh task
    rcache,              \* resolver: the cache row of the package
    in_flight,           \* resolver: the pending fetch of the package, if any
    fetches,             \* resolver: the fetch_all_versions calls the registry saw
    callers,             \* resolver: the resolve calls
    fetch_failed,        \* resolver: a fetch ended in an error
    manifest,            \* parser: the manifest the document was written from
    content,             \* parser: the text of the document
    tree,                \* parser: the syntax tree tree-sitter built for content
    results,             \* parser: the records the parser returned
    ppc,                 \* parser: "input", or the parser that ran
    response,            \* registry: the body of the registry's answer
    fetched,             \* registry: what fetch_all_versions returned
    latest_out,          \* registry: what latest() returned for it
    refetched,           \* registry: what a second fetch_all_versions returned
    regpc                \* registry: "input", "fetched", "latest" or "refetched"

matcherVars == <<version_spec, available_versions, latest_version, mpc, mresult>>

diagVars == <<doc, known, diagnostics, dpc>>

cacheVars ==
    <<pkg_rows, ver_rows, pkg_seq, ver_seq, last_upsert, got, n_upserts,
      sqlite_master, opened>>

backendVars ==
    <<cache, parsers, cache_guard, handlers, lifecycle, server_sent, scan>>

resolverVars == <<rcache, in_flight, fetches, callers, fetch_failed>>

parserVars == <<manifest, content, tree, results, ppc>>

registryVars == <<response, fetched, latest_out, refetched, regpc>>

vars ==
    <<matcherVars, diagVars, cacheVars, backendVars, resolverVars, parserVars,
      registryVars>>

\* The matcher is not in use.
MatcherIdle ==
    /\ version_spec = <<>>
    /\ available_versions = <<>>
    /\ latest_version = <<>>
    /\ mpc = "idle"
    /\ mresult = "none"

\* The diagnostics engine is not in use.
DiagIdle ==
    /\ doc = <<>>
    /\ known = <<>>
    /\ diagnostics = <<>>
    /\ dpc = "idle"

\* The cache store is not in use.
CacheIdle ==
    /\ pkg_rows = {}
    /\ ver_rows = {}
    /\ pkg_seq = 0
    /\ ver_seq = 0
    /\ last_upsert = <<>>
    /\ got = <<>>
    /\ n_upserts = 0
    /\ sqlite_master = {}
    /\ opened = <<>>

\* Who holds the cache mutex: nobody, the background scan, or handler t.
Free == [task |-> "none", id |-> 0]

ScanTask == [task |-> "scan", id |-> 0]

HandlerTask(t) == [task |-> "did_open", id |-> t]

\* No Backend is constructed.
BackendIdle ==
    /\ cache = <<>>
    /\ parsers = {}
    /\ cache_guard = Free
    /\ handlers = <<>>
    /\ lifecycle = "new"
    /\ server_sent = <<>>
    /\ scan = [pc |-> "none", log |-> <<>>, queries |-> 0]

\* The resolver is not in use.
ResolverIdle ==
    /\ rcache = <<>>
    /\ in_flight = <<>>
    /\ fetches = 0
    /\ callers = <<>>
    /\ fetch_failed = FALSE

\* No parser is in use.
ParserIdle ==
    /\ manifest = <<>>
    /\ content = <<>>
    /\ tree = <<>>
    /\ results = <<>>
    /\ ppc = "idle"

\* No registry is in use.
RegistryIdle ==
    /\ response = <<>>
    /\ fetched = <<>>
    /\ latest_out = <<>>
    /\ refetched = <<>>
    /\ regpc = "idle"

(***************************************************************************)
(* The matcher called on drawn inputs.                                     *)
(***************************************************************************)
MatcherInit ==
    /\ DiagIdle
    /\ CacheIdle
    /\ BackendIdle
    /\ ResolverIdle
    /\ ParserIdle
    /\ RegistryIdle
    /\ version_spec \in SpecStrings
    /\ available_versions \in VersionLists
    /\ latest_version = <<>>
    /\ mpc = "input"
    /\ mresult = "none"

\* A call of NpmVersionMatcher::version_exists.
VersionExists ==
    /\ mpc = "input"
    /\ mpc' = "exists"
    /\ mresult' = version_exists(version_spec, available_versions)
    /\ UNCHANGED <<version_spec, available_versions, latest_version>>
    /\ UNCHANGED <<diagVars, cacheVars, backendVars, resolverVars,
                 parserVars, registryVars>>

\* A call of NpmVersionMatcher::compare_to_latest against one of the known
\* versions.
CompareToLatest ==
    /\ mpc = "input"
    /\ \E i \in DOMAIN available_versions :
          /\ latest_version' = available_versions[i]
          /\ mresult' = compare_to_latest(version_spec, available_versions[i])
    /\ mpc' = "compare"
    /\ UNCHANGED <<version_spec, available_versions>>
    /\ UNCHANGED <<diagVars, cacheVars, backendVars, resolverVars,
                 parserVars, registryVars>>

\* A call of PnpmCatalogMatcher::version_exists.
PnpmVersionExists ==
    /\ mpc = "input"
    /\ mpc' = "pnpm_exists"
    /\ mresult' = PnpmCatalogMatcher_version_exists(version_spec,
                                                     available_versions)
    /\ UNCHANGED <<version_spec, available_versions, latest_version>>
    /\ UNCHANGED <<diagVars, cacheVars, backendVars, resolverVars,
                 parserVars, registryVars>>

\* A call of PnpmCatalogMatcher::compare_to_latest against one of the known
\* versions.
PnpmCompareToLatest ==
    /\ mpc = "input"
    /\ \E i \in DOMAIN available_versions :
          /\ latest_version' = available_versions[i]
          /\ mresult' = PnpmCatalogMatcher_compare_to_latest(
                            version_spec, available_versions[i])
    /\ mpc' = "pnpm_compare"
    /\ UNCHANGED <<version_spec, available_versions>>
    /\ UNCHANGED <<diagVars, cacheVars, backendVars, resolverVars,
                 parserVars, registryVars>>

MatcherNext == VersionExists \/ CompareToLatest

MatcherSpec == MatcherInit /\ [][MatcherNext]_vars

\* The pnpm catalog matcher called on the same inputs.
PnpmNext == PnpmVersionExists \/ PnpmCompareToLatest

PnpmSpec == MatcherInit /\ [][PnpmNext]_vars

(***************************************************************************)
(* Properties of the npm matcher (checked under MatcherSpec).              *)
(***************************************************************************)
\* The inputs of the call as the matcher parsed them.
TheRange == Unwrap(VersionRange_parse(version_spec))

RangeParsed == IsSome(VersionRange_parse(version_spec))

Parses(v) == IsSome(VersionParse(v))

Parsed(v) == Unwrap(VersionParse(v))

\* The known versions that parse as strict semver, in order.
ParsedOnly(versions) == SelectSeq(versions, Parses)

\* Some known version parses and has property P.
SomeKnown(P(_)) ==
    \E i \in DOMAIN available_versions :
        Parses(available_versions[i]) /\ P(Parsed(available_versions[i]))

\* C6: for every spec the range parser accepts and every list of known
\* versions, version_exists is true exactly when some element of the list
\* parses as a strict semver version and satisfies the parsed range; dropping
\* the elements that do not parse never changes the answer.
C6_VersionExistsIffSomeSatisfies ==
    (mpc = "exists" /\ RangeParsed) =>
        /\ mresult <=> \E i \in DOMAIN available_versions :
                          /\ Parses(available_versions[i])
                          /\ satisfies(TheRange, Parsed(available_versions[i]))
        /\ mresult = version_exists(version_spec, ParsedOnly(available_versions))

\* C6 witness: version_exists answered true on a list that holds a version
\* that does not parse besides one that satisfies the range.
C6_Witness ==
    /\ mpc = "exists" /\ RangeParsed /\ mresult
    /\ Len(available_versions) = 2
    /\ ~Parses(available_versions[1])
    /\ Parses(available_versions[2])

\* Latest is admitted by the range of the call.
LatestAdmitted == satisfies(TheRange, Parsed(latest_version))

TheBase == Unwrap(base_version(TheRange))

CompareDone == mpc = "compare" /\ RangeParsed /\ Parses(latest_version)

\* C7 as claimed: Latest iff the range admits latest; otherwise Outdated iff
\* base < latest and Newer iff base > latest (strictly).
C7_Original ==
    CompareDone =>
        /\ mresult = "Latest" <=> LatestAdmitted
        /\ ~LatestAdmitted =>
              /\ mresult = "Outdated" <=> VersionCmp(TheBase, Parsed(latest_version)) < 0
              /\ mresult = "Newer" <=> VersionCmp(TheBase, Parsed(latest_version)) > 0

\* C7 as amended: Latest iff the range admits latest; otherwise Outdated iff
\* base < latest and Newer iff base >= latest (a base equal to latest that
\* the range does not admit, as for >V and <V, is reported Newer).
C7_CompareToLatestVerdict ==
    CompareDone =>
        /\ mresult = "Latest" <=> LatestAdmitted
        /\ ~LatestAdmitted =>
              /\ mresult = "Outdated" <=> VersionCmp(TheBase, Parsed(latest_version)) < 0
              /\ mresult = "Newer" <=> VersionCmp(TheBase, Parsed(latest_version)) >= 0

\* C7 witness: a range that does not admit latest although its base equals
\* latest, reported Newer.
C7_Witness ==
    /\ CompareDone /\ ~LatestAdmitted
    /\ VersionCmp(TheBase, Parsed(latest_version)) = 0
    /\ mresult = "Newer"

\* The leftmost non-zero component of b (the patch when major and minor are
\* zero) is the same in v, and every component left of it is zero in v.
SameLeftmost(b, v) ==
    IF b.major > 0 THEN v.major = b.major
    ELSE IF b.minor > 0 THEN v.major = 0 /\ v.minor = b.minor
    ELSE v.major = 0 /\ v.minor = 0 /\ v.patch = b.patch

\* C8: ^X.Y.Z (X > 0) admits v iff v >= X.Y.Z and v.major = X; ^0.Y.Z
\* (Y > 0) admits v iff v >= 0.Y.Z, v.major = 0 and v.minor = Y; ~X.Y.Z
\* admits v iff v >= X.Y.Z, v.major = X and v.minor = Y; no caret or tilde
\* range admits a version below its base or one with a different leftmost
\* non-zero component.
C8_PrefixRanges ==
    (mpc = "exists" /\ RangeParsed /\ TheRange.kind \in {"Caret", "Tilde"}) =>
        LET b == TheRange.v
            Ge(v) == VersionCmp(v, b) >= 0
            CaretMajor(v) == Ge(v) /\ v.major = b.major
            CaretMinor(v) == Ge(v) /\ v.major = 0 /\ v.minor = b.minor
            TildeOk(v) == Ge(v) /\ v.major = b.major /\ v.minor = b.minor
            Outside(v) == ~Ge(v) \/ (TheRange.kind = "Caret" /\ ~SameLeftmost(b, v))
        IN  /\ (TheRange.kind = "Caret" /\ b.major > 0) =>
                  (mresult <=> SomeKnown(CaretMajor))
            /\ (TheRange.kind = "Caret" /\ b.major = 0 /\ b.minor > 0) =>
                  (mresult <=> SomeKnown(CaretMinor))
            /\ TheRange.kind = "Tilde" => (mresult <=> SomeKnown(TildeOk))
            /\ (\A i \in DOMAIN available_versions :
                    Parses(available_versions[i]) =>
                        Outside(Parsed(available_versions[i]))) => ~mresult

\* C8 witness: ^0.Y.Z with Y > 0 rejected the only known version, which is
\* above the base and of major 0 but of another minor.
C8_Witness ==
    /\ mpc = "exists" /\ RangeParsed /\ TheRange.kind = "Caret"
    /\ TheRange.v.major = 0 /\ TheRange.v.minor > 0
    /\ Len(available_versions) = 1 /\ Parses(available_versions[1])
    /\ VersionCmp(Parsed(available_versions[1]), TheRange.v) > 0
    /\ Parsed(available_versions[1]).major = 0
    /\ ~mresult

\* The call is version_exists on a ^0.0.Z range and one known version that
\* parses.
CaretZeroZero ==
    /\ mpc = "exists" /\ RangeParsed /\ TheRange.kind = "Caret"
    /\ TheRange.v.major = 0 /\ TheRange.v.minor = 0
    /\ Len(available_versions) = 1 /\ Parses(available_versions[1])

\* C9 as claimed: ^R with R.major = 0 and R.minor = 0 admits v iff v = R.
C9_Original ==
    CaretZeroZero => (mresult <=> Parsed(available_versions[1]) = TheRange.v)

\* C9 as amended: ^R with R.major = 0 and R.minor = 0 admits v iff v >= R,
\* v.major = 0, v.minor = 0 and v.patch = R.patch; when neither R nor v has a
\* pre-release or build part, that is iff v = R.
C9_CaretZeroZero ==
    CaretZeroZero =>
        LET R == TheRange.v
            v == Parsed(available_versions[1])
            plain(x) == x.pre = <<>> /\ x.build = <<>>
        IN  /\ mresult <=> /\ VersionCmp(v, R) >= 0
                           /\ v.major = 0 /\ v.minor = 0 /\ v.patch = R.patch
            /\ (plain(R) /\ plain(v)) => (mresult <=> v = R)

\* C9 witness: ^0.0.Z admitted a version that is not R itself (R is a
\* pre-release of it).
C9_Witness ==
    /\ CaretZeroZero /\ mresult
    /\ Parsed(available_versions[1]) # TheRange.v

\* The spec strings MAJOR.x and MAJOR.X
MajorX(a) == {NumStr(a) \o <<".">> \o x : x \in {<<"x">>, <<"X">>}}

\* The spec strings MAJOR.MINOR.x and MAJOR.MINOR.X
MinorX(a, b) ==
    {NumStr(a) \o <<".">> \o NumStr(b) \o <<".">> \o x : x \in {<<"x">>, <<"X">>}}

\* The verdict of compare_to_latest for a range that admits exactly the
\* versions with Admit and whose base is base.
VerdictFor(admitted, base, latest) ==
    IF admitted THEN "Latest"
    ELSE IF VersionCmp(base, latest) < 0 THEN "Outdated" ELSE "Newer"

\* C10: MAJOR.x admits v iff v.major = MAJOR and MAJOR.MINOR.x admits v iff
\* v.major = MAJOR and v.minor = MINOR, whether the x is written x or X; in
\* compare_to_latest their bases are MAJOR.0.0 and MAJOR.MINOR.0.
C10_Wildcards ==
    \A a \in 0..MaxBase :
        LET IsMajor(v) == v.major = a
        IN  /\ (mpc = "exists" /\ version_spec \in MajorX(a)) =>
                  (mresult <=> SomeKnown(IsMajor))
            /\ (mpc = "compare" /\ version_spec \in MajorX(a)
                    /\ Parses(latest_version)) =>
                  mresult = VerdictFor(Parsed(latest_version).major = a,
                                       VersionNew(a, 0, 0),
                                       Parsed(latest_version))
            /\ \A b \in 0..MaxBase :
                  LET IsMinor(v) == v.major = a /\ v.minor = b
                  IN  /\ (mpc = "exists" /\ version_spec \in MinorX(a, b)) =>
                            (mresult <=> SomeKnown(IsMinor))
                      /\ (mpc = "compare" /\ version_spec \in MinorX(a, b)
                              /\ Parses(latest_version)) =>
                            mresult = VerdictFor(IsMinor(Parsed(latest_version)),
                                                 VersionNew(a, b, 0),
                                                 Parsed(latest_version))

\* C10 witness: MAJOR.MINOR.X (upper case) compared with a latest version
\* of the same major and a smaller minor, reported Newer.
C10_Witness ==
    /\ mpc = "compare" /\ Parses(latest_version)
    /\ \E a \in 0..MaxBase, b \in 1..MaxBase :
          /\ version_spec = NumStr(a) \o <<".">> \o NumStr(b) \o <<".", "X">>
          /\ Parsed(latest_version).major = a
          /\ Parsed(latest_version).minor < b
    /\ mresult = "Newer"

\* The spec is the literal * (possibly with blanks around it).
IsAny == RangeParsed /\ TheRange.kind = "Any"

LastKnown == available_versions[Len(available_versions)]

\* C11 as claimed: for the spec * and every non-empty list of known
\* versions, compare_to_latest against the last element is Latest and
\* version_exists is true.
C11_Original ==
    (IsAny /\ available_versions # <<>>) =>
        /\ mpc = "exists" => mresult = TRUE
        /\ (mpc = "compare" /\ latest_version = LastKnown) => mresult = "Latest"

\* C11 as amended: for the spec * and every non-empty list of known
\* versions, compare_to_latest against the last element is Latest when that
\* element parses as a semver version and Invalid when it does not, and
\* version_exists is true exactly when some element of the list parses.
C11_AnySpec ==
    (IsAny /\ available_versions # <<>>) =>
        /\ mpc = "exists" =>
              mresult = (\E i \in DOMAIN available_versions :
                            Parses(available_versions[i]))
        /\ (mpc = "compare" /\ latest_version = LastKnown) =>
              mresult = IF Parses(latest_version) THEN "Latest" ELSE "Invalid"

\* C11 witness: * compared with the last of two known versions, the first
\* of which does not parse, reported Latest.
C11_Witness ==
    /\ version_spec = <<"*">>
    /\ Len(available_versions) = 2
    /\ ~Parses(available_versions[1])
    /\ mpc = "compare"
    /\ latest_version = LastKnown
    /\ mresult = "Latest"

\* The shapes the npm matcher accepts, read off the trimmed spec: an
\* operator followed by a semver version (blanks around it allowed), the
\* literal *, MAJOR.x or MAJOR.MINOR.x with numbers for MAJOR and MINOR and
\* x in either case, or a semver version.
Operators == { <<">", "=">>, <<"<", "=">>, <<">">>, <<"<">>, <<"^">>, <<"~">> }

AcceptedShape(raw) ==
    LET spec == Trim(raw)
        parts == Split(spec, ".")
        Number(p) == IsSome(ParseU64(p))
        X(p) == p \in { <<"x">>, <<"X">> }
    IN  \/ \E op \in Operators :
              StartsWith(spec, op) /\ Parses(Trim(Drop(spec, Len(op))))
        \/ spec = <<"*">>
        \/ Len(parts) = 2 /\ Number(parts[1]) /\ X(parts[2])
        \/ Len(parts) = 3 /\ Number(parts[1]) /\ Number(parts[2]) /\ X(parts[3])
        \/ Parses(spec)

\* C12: a spec of none of the accepted shapes gives Invalid from
\* compare_to_latest for every latest version and false from version_exists
\* for every list; a latest version that does not parse gives Invalid; and
\* both operations always return a value of their result type.
C12_InvalidSpecs ==
    /\ mpc = "exists" =>
          /\ mresult \in BOOLEAN
          /\ ~AcceptedShape(version_spec) => mresult = FALSE
    /\ mpc = "compare" =>
          /\ mresult \in {"Latest", "Outdated", "Newer", "Invalid"}
          /\ ~AcceptedShape(version_spec) => mresult = "Invalid"
          /\ ~Parses(latest_version) => mresult = "Invalid"

\* C12 witness: an operator followed by a remainder that is not a semver
\* version, compared with a latest version that parses, reported Invalid.
C12_Witness ==
    /\ version_spec = <<">", "1", ".", "0">>
    /\ mpc = "compare"
    /\ Parses(latest_version)
    /\ mresult = "Invalid"

MaxRecords == 2
\* Longest list of known versions of a package in the engine's inputs.
MaxKnown == 2

Packages == {"lodash", "react"}

\* The version specs written in the documents.
DocSpecs ==
    { VerStr(1, 0, 0), <<"^">> \o VerStr(1, 0, 0), VerStr(9, 9, 9), <<"x">> }

\* The versions the registry knows.
KnownVersions == { VerStr(0, 9, 0), VerStr(1, 0, 0), VerStr(1, 1, 0) }

KnownLists == UNION {[1..n -> KnownVersions] : n \in 0..MaxKnown}

\* What resolving a package gives: its versions, NotFound, or another error.
Resolved(versions) == [outcome |-> "Ok", versions |-> versions]

NotFound == [outcome |-> "NotFound", versions |-> <<>>]

\* A network or response error of the resolver.
Failed == [outcome |-> "Failed", versions |-> <<>>]

Records == [name : Packages, version : DocSpecs]

Documents == UNION {[1..n -> Records] : n \in 0..MaxRecords}

\* format!("Update available: {} -> {}", spec, latest)
UpdateAvailable(spec, latest) == <<"Update available: ", spec, " -> ", latest>>

\* format!("Version {} not found in registry", spec)
VersionNotFound(spec) == <<"Version ", spec, " not found in registry">>

\* format!("Package {} not found in registry", name)
PackageNotFound(name) == <<"Package ", name, " not found in registry">>

Diagnostic(i, severity, message) ==
    [record |-> i, severity |-> severity, message |-> message]

\* The verdict mapped to diagnostics with Newer also reported as an update.
verdict_diagnostics_newer_warns(i, spec, latest) ==
    IF compare_to_latest(spec, latest) \in {"Outdated", "Newer"}
    THEN <<Diagnostic(i, "Warning", UpdateAvailable(spec, latest))>>
    ELSE <<>>

\* Step 4: Latest, Newer and Invalid give nothing, Outdated a Warning.
verdict_diagnostics(i, spec, latest) ==
    IF compare_to_latest(spec, latest) = "Outdated"
    THEN <<Diagnostic(i, "Warning", UpdateAvailable(spec, latest))>>
    ELSE <<>>

\* Steps 2-4 with the version_exists test forgotten.
versions_diagnostics_no_exists(i, spec, versions) ==
    IF versions = <<>> THEN <<>>
    ELSE verdict_diagnostics(i, spec, versions[Len(versions)])

\* Steps 2-4 for record i, whose package has these known versions.
versions_diagnostics(i, spec, versions) ==
    IF versions = <<>> THEN <<>>
    ELSE IF ~version_exists(spec, versions)
    THEN <<Diagnostic(i, "Error", VersionNotFound(spec))>>
    ELSE verdict_diagnostics(i, spec, versions[Len(versions)])

\* Steps 1-4 for record i.
record_diagnostics(i, rec, resolved) ==
    CASE resolved.outcome = "NotFound" ->
            <<Diagnostic(i, "Error", PackageNotFound(rec.name))>>
      [] resolved.outcome = "Failed" -> <<>>
      [] resolved.outcome = "Ok" ->
            versions_diagnostics(i, rec.version, resolved.versions)

\* The diagnostics of records i.. of the document, in document order.
RECURSIVE diagnostics_from(_, _, _)
diagnostics_from(i, records, resolve) ==
    IF i > Len(records) THEN <<>>
    ELSE record_diagnostics(i, records[i], resolve[records[i].name])
         \o diagnostics_from(i + 1, records, resolve)

generate_diagnostics(records, resolve) == diagnostics_from(1, records, resolve)

DiagInit ==
    /\ MatcherIdle
    /\ CacheIdle
    /\ BackendIdle
    /\ ResolverIdle
    /\ ParserIdle
    /\ RegistryIdle
    /\ doc \in Documents
    /\ known \in [Packages -> {NotFound, Failed}
                                \cup {Resolved(l) : l \in KnownLists}]
    /\ known["react"] \in {NotFound, Resolved(<<>>)}
    /\ diagnostics = <<>>
    /\ dpc = "input"

\* The engine run on the document.
GenerateDiagnostics ==
    /\ dpc = "input"
    /\ diagnostics' = generate_diagnostics(doc, known)
    /\ dpc' = "done"
    /\ UNCHANGED <<doc, known>>
    /\ UNCHANGED <<matcherVars, cacheVars, backendVars, resolverVars,
                 parserVars, registryVars>>

DiagNext == GenerateDiagnostics

DiagSpec == DiagInit /\ [][DiagNext]_vars

(***************************************************************************)
(* Properties of the diagnostics engine (checked under DiagSpec).          *)
(***************************************************************************)
\* The diagnostics generated for record i, in order.
DiagnosticsOf(i) == SelectSeq(diagnostics, LAMBDA d : d.record = i)

\* Record i's package resolved to a non-empty list of known versions.
HasVersions(i) ==
    /\ known[doc[i].name].outcome = "Ok"
    /\ known[doc[i].name].versions # <<>>

KnownOf(i) == known[doc[i].name].versions

LatestOf(i) == KnownOf(i)[Len(KnownOf(i))]

\* C1: for every record whose package has a non-empty list of known versions
\* and whose spec some known version satisfies, the engine emits no
\* diagnostic when compare_to_latest(spec, latest) is Latest or Newer and
\* exactly one Warning "Update available: <spec> -> <latest>" when it is
\* Outdated, latest being the last element of the list.
C1_VerdictToDiagnostic ==
    dpc = "done" =>
        \A i \in DOMAIN doc :
            (HasVersions(i) /\ version_exists(doc[i].version, KnownOf(i))) =>
                /\ compare_to_latest(doc[i].version, LatestOf(i)) \in {"Latest", "Newer"}
                      => DiagnosticsOf(i) = <<>>
                /\ compare_to_latest(doc[i].version, LatestOf(i)) = "Outdated"
                      => DiagnosticsOf(i) =
                            <<Diagnostic(i, "Warning",
                                UpdateAvailable(doc[i].version, LatestOf(i)))>>

\* C1 witness: a document with a record reported Outdated (one Warning) and
\* a record whose range admits the latest version (nothing).
C1_Witness ==
    /\ dpc = "done"
    /\ \E i, j \in DOMAIN doc :
          /\ HasVersions(i) /\ version_exists(doc[i].version, KnownOf(i))
          /\ compare_to_latest(doc[i].version, LatestOf(i)) = "Outdated"
          /\ Len(DiagnosticsOf(i)) = 1
          /\ HasVersions(j) /\ version_exists(doc[j].version, KnownOf(j))
          /\ compare_to_latest(doc[j].version, LatestOf(j)) = "Latest"
          /\ DiagnosticsOf(j) = <<>>

MaxUpserts == 3

\* The (registry_type, package_name) keys written: two share the registry,
\* two share the name.
Keys == { <<"npm", "lodash">>, <<"npm", "react">>, <<"crates_io", "lodash">> }

\* The version lists written: empty, in both orders, and with a repeated
\* version.
CacheLists ==
    { <<>>, <<"1.0.0">>, <<"1.0.0", "1.1.0">>, <<"1.1.0", "1.0.0">>,
      <<"1.0.0", "1.0.0">> }

\* packages without its UNIQUE constraint: no insert ever conflicts.
packages_conflict_never(rows, registry_type, package_name) == {}

\* UNIQUE(registry_type, package_name) of table packages: the rows an
\* insert of this key conflicts with.
packages_conflict(rows, registry_type, package_name) ==
    {row \in rows : /\ row.registry_type = registry_type
                    /\ row.package_name = package_name}

\* UNIQUE(package_id, version) of table versions: an insert of this pair
\* conflicts with a row.
versions_conflict(rows, package_id, version) ==
    \E row \in rows : row.package_id = package_id /\ row.version = version

\* INSERT INTO versions for each element of list in order, ids from the
\* AUTOINCREMENT counter.  A pair that conflicts is skipped when ignore, and
\* fails the statement (ok = FALSE) otherwise.
RECURSIVE insert_versions(_, _, _, _, _)
insert_versions(rows, seq, package_id, list, ignore) ==
    IF list = <<>> THEN [rows |-> rows, seq |-> seq, ok |-> TRUE]
    ELSE IF versions_conflict(rows, package_id, Head(list))
    THEN IF ignore
         THEN insert_versions(rows, seq, package_id, Tail(list), ignore)
         ELSE [rows |-> rows, seq |-> seq, ok |-> FALSE]
    ELSE insert_versions(
            rows \cup {[id |-> seq + 1, package_id |-> package_id,
                        version |-> Head(list)]},
            seq + 1, package_id, Tail(list), ignore)

\* The package row of an upsert: INSERT ... ON CONFLICT(registry_type,
\* package_name) DO UPDATE SET updated_at.  [rows, seq, id]
upsert_package(rows, seq, key, now_ms) ==
    LET hit == packages_conflict(rows, key[1], key[2])
    IN  IF hit # {}
        THEN [rows |-> (rows \ hit)
                        \cup {[row EXCEPT !.updated_at = now_ms] : row \in hit},
              seq |-> seq,
              id |-> (CHOOSE row \in hit : TRUE).id]
        ELSE [rows |-> rows \cup {[id |-> seq + 1, registry_type |-> key[1],
                                   package_name |-> key[2],
                                   updated_at |-> now_ms]},
              seq |-> seq + 1,
              id |-> seq + 1]

\* The rows of versions left by DELETE FROM versions WHERE package_id = id.
delete_versions(rows, package_id) ==
    {row \in rows : row.package_id # package_id}

\* The elements of a set of rows in ascending id order.
RECURSIVE by_id(_)
by_id(rows) ==
    IF rows = {} THEN <<>>
    ELSE LET first == CHOOSE row \in rows : \A other \in rows : row.id <= other.id
         IN  <<first>> \o by_id(rows \ {first})

versions_of(rows, package_id) ==
    LET mine == by_id({row \in rows : row.package_id = package_id})
    IN  [i \in DOMAIN mine |-> mine[i].version]

\* SELECT ... FROM packages WHERE registry_type = ? AND package_name = ?
select_package(rows, key) ==
    {row \in rows : row.registry_type = key[1] /\ row.package_name = key[2]}

\* get(registry, name): Some(<<versions in id order, updated_at>>), or None
\* when the key has no row.
get(pkgs, vers, key) ==
    LET hit == by_id(select_package(pkgs, key))
    IN  IF hit = <<>> THEN None
        ELSE Some(<<versions_of(vers, hit[1].id), hit[1].updated_at>>)

\* Most Cache::new calls on the database file of a run.
MaxNew == 2

\* A schema object as sqlite_master lists it.
SchemaObject(type, name) == [type |-> type, name |-> name]

\* CREATE TABLE [IF NOT EXISTS] name (..): an existing table is kept when
\* IF NOT EXISTS is given and is an error otherwise; an AUTOINCREMENT column
\* makes SQLite add its sqlite_sequence table.
create_table(schema, name, if_not_exists, autoincrement) ==
    IF ~schema.ok THEN schema
    ELSE IF SchemaObject("table", name) \in schema.master
    THEN [schema EXCEPT !.ok = if_not_exists]
    ELSE [schema EXCEPT !.master =
             @ \cup {SchemaObject("table", name)}
               \cup (IF autoincrement THEN {SchemaObject("table", "sqlite_sequence")}
                     ELSE {})]

\* CREATE INDEX [IF NOT EXISTS] name ON ..
create_index(schema, name, if_not_exists) ==
    IF ~schema.ok THEN schema
    ELSE IF SchemaObject("index", name) \in schema.master
    THEN [schema EXCEPT !.ok = if_not_exists]
    ELSE [schema EXCEPT !.master = @ \cup {SchemaObject("index", name)}]

\* create_schema without IF NOT EXISTS on its tables.
create_schema_plain(master) ==
    create_index(
      create_table(
        create_index(
          create_index(
            create_table([ok |-> TRUE, master |-> master], "packages", FALSE, TRUE),
            "idx_updated_at", TRUE),
          "idx_registry_package", TRUE),
        "versions", FALSE, TRUE),
      "idx_package_id", TRUE)

\* Cache::create_schema: its five statements in turn, the first error ends it.
create_schema(master) ==
    create_index(
      create_table(
        create_index(
          create_index(
            create_table([ok |-> TRUE, master |-> master], "packages", TRUE, TRUE),
            "idx_updated_at", TRUE),
          "idx_registry_package", TRUE),
        "versions", TRUE, TRUE),
      "idx_package_id", TRUE)

\* Cache::table_exists: SELECT COUNT(*) FROM sqlite_master WHERE type='table'
\* AND name=? is greater than 0.
table_exists(master, name) ==
    Cardinality({object \in master :
                    object.type = "table" /\ object.name = name}) > 0

\* The last Cache::new returned a cache.
IsOpen == opened # <<>> /\ opened[Len(opened)] = "Ok"

NoRepeat(list) ==
    \A i, j \in DOMAIN list : list[i] = list[j] => i = j

CacheInit ==
    /\ MatcherIdle
    /\ DiagIdle
    /\ BackendIdle
    /\ ResolverIdle
    /\ ParserIdle
    /\ RegistryIdle
    /\ pkg_rows = {}
    /\ ver_rows = {}
    /\ pkg_seq = 0
    /\ ver_seq = 0
    /\ last_upsert = [key \in Keys |-> None]
    /\ got = None
    /\ n_upserts = 0
    /\ sqlite_master = create_schema({}).master
    /\ opened = <<"Ok">>

\* upsert(registry, name, list, now_ms), one transaction: the package row,
\* the old versions deleted, the new ones inserted.  A list with a repeated
\* version meets UNIQUE(package_id, version): the transaction either fails
\* and is rolled back, or skips the repeated element.
Upsert(key, list, ignore) ==
    /\ IsOpen
    /\ n_upserts < MaxUpserts
    /\ n_upserts' = n_upserts + 1
    /\ last_upsert' = [last_upsert EXCEPT
                          ![key] = Some(<<list, n_upserts + 1>>)]
    /\ LET pkg == upsert_package(pkg_rows, pkg_seq, key, n_upserts + 1)
           ins == insert_versions(delete_versions(ver_rows, pkg.id), ver_seq,
                                  pkg.id, list, ignore)
       IN  IF ins.ok
           THEN /\ pkg_rows' = pkg.rows
                /\ pkg_seq' = pkg.seq
                /\ ver_rows' = ins.rows
                /\ ver_seq' = ins.seq
           ELSE UNCHANGED <<pkg_rows, pkg_seq, ver_rows, ver_seq>>
    /\ UNCHANGED <<got, sqlite_master, opened>>
    /\ UNCHANGED <<matcherVars, diagVars, backendVars, resolverVars,
                 parserVars, registryVars>>

\* get(registry, name)
Get(key) ==
    /\ IsOpen
    /\ got' = <<key, get(pkg_rows, ver_rows, key)>>
    /\ UNCHANGED <<pkg_rows, ver_rows, pkg_seq, ver_seq, last_upsert, n_upserts>>
    /\ UNCHANGED <<sqlite_master, opened>>
    /\ UNCHANGED <<matcherVars, diagVars, backendVars, resolverVars,
                 parserVars, registryVars>>

\* Cache::new(db_path, refresh_interval): the file is opened, created empty
\* when missing, and create_schema runs on it.
New ==
    /\ Len(opened) < MaxNew
    /\ LET schema == create_schema(sqlite_master)
       IN  /\ sqlite_master' = schema.master
           /\ opened' = Append(opened, IF schema.ok THEN "Ok" ELSE "SchemaCreation")
    /\ UNCHANGED <<pkg_rows, ver_rows, pkg_seq, ver_seq, last_upsert, got, n_upserts>>
    /\ UNCHANGED <<matcherVars, diagVars, backendVars, resolverVars,
                 parserVars, registryVars>>

CacheNext ==
    \/ \E key \in Keys, list \in CacheLists, ignore \in BOOLEAN :
          Upsert(key, list, ignore)
    \/ \E key \in Keys : Get(key)

CacheSpec == CacheInit /\ [][CacheNext]_vars

\* The database file over several runs of the server: no file at first,
\* Cache::new at the start of each run, upserts during it.
SchemaInit ==
    /\ MatcherIdle
    /\ DiagIdle
    /\ BackendIdle
    /\ ResolverIdle
    /\ ParserIdle
    /\ RegistryIdle
    /\ pkg_rows = {}
    /\ ver_rows = {}
    /\ pkg_seq = 0
    /\ ver_seq = 0
    /\ last_upsert = [key \in Keys |-> None]
    /\ got = None
    /\ n_upserts = 0
    /\ sqlite_master = {}
    /\ opened = <<>>

SchemaNext ==
    \/ New
    \/ \E key \in Keys, list \in CacheLists, ignore \in BOOLEAN :
          Upsert(key, list, ignore)

SchemaSpec == SchemaInit /\ [][SchemaNext]_vars

(***************************************************************************)
(* Properties of the cache store (checked under CacheSpec).                *)
(***************************************************************************)
\* At most one row of packages per (registry_type, package_name) key.
OneRowPerKey ==
    \A a, b \in pkg_rows :
        (a.registry_type = b.registry_type /\ a.package_name = b.package_name)
            => a = b

\* C5 as claimed: after upsert(r, n, V, t) and before any later upsert for
\* the same key, get(r, n) returns exactly (V, t), for every version list V
\* and whatever upserts for other keys come between; at most one row per key
\* exists.
C5_Original ==
    /\ OneRowPerKey
    /\ \A key \in Keys :
          IsSome(last_upsert[key]) =>
              get(pkg_rows, ver_rows, key) = last_upsert[key]

\* C5 as amended: the same for every version list V without a repeated
\* element.
C5_CacheRoundTrip ==
    /\ OneRowPerKey
    /\ \A key \in Keys :
          (IsSome(last_upsert[key]) /\ NoRepeat(Unwrap(last_upsert[key])[1])) =>
              get(pkg_rows, ver_rows, key) = last_upsert[key]

\* C5 witness: a get returned the two versions of the latest upsert for its
\* key, in order, after a later upsert for another key of the same registry
\* and a replaced earlier list for the same key.
C5_Witness ==
    /\ got # None
    /\ got[1] = <<"npm", "lodash">>
    /\ got[2] = Some(<<(<<"1.1.0", "1.0.0">>), 2>>)
    /\ IsSome(last_upsert[<<"npm", "react">>])
    /\ Unwrap(last_upsert[<<"npm", "react">>])[2] = 3
    /\ n_upserts = 3

(***************************************************************************)
(* The LSP backend: src/lsp/backend.rs.  Every handler runs as a task of   *)
(* its own; a handler is suspended at each await on the client and other   *)
(* tasks run meanwhile.  The cache is behind a mutex.                      *)
(***************************************************************************)
\* Most didOpen notifications of a run.
MaxOpens == 2

\* A document URI: its directories and its file name as <<stem, extension>>.
Uri(dir, stem, ext) == [dir |-> dir, file |-> <<stem, ext>>]

Uris ==
    { Uri(<<"test">>, "package", "json"),
      Uri(<<"test">>, "Cargo", "toml"),
      Uri(<<"test">>, "go", "mod"),
      Uri(<<"test">>, "pnpm-workspace", "yaml"),
      Uri(<<"repo", ".github", "workflows">>, "ci", "yml"),
      Uri(<<"test">>, "README", "md") }

\* The texts opened, and the dependency records their parser yields.
Texts == {"lodash 1.0.0", "lodash 9.9.9, react 1.0.0"}

parse(text) ==
    CASE text = "lodash 1.0.0" -> <<[name |-> "lodash", version |-> VerStr(1, 0, 0)]>>
      [] text = "lodash 9.9.9, react 1.0.0" ->
            <<[name |-> "lodash", version |-> VerStr(9, 9, 9)],
              [name |-> "react", version |-> VerStr(1, 0, 0)]>>

\* The rows a cache may hold when the server starts.
CacheContents ==
    { [p \in Packages |->
          IF p = "lodash" THEN Resolved(<<VerStr(1, 0, 0), VerStr(1, 1, 0)>>)
          ELSE NotFound] }

\* The file name detector: the registry type of a URI, or None.
detect_parser_type(uri) ==
    CASE uri.file = <<"package", "json">> -> Some("Npm")
      [] uri.file = <<"Cargo", "toml">> -> Some("CratesIo")
      [] uri.file = <<"go", "mod">> -> Some("GoProxy")
      [] uri.file = <<"pnpm-workspace", "yaml">> -> Some("PnpmCatalog")
      [] /\ Len(uri.dir) >= 2
         /\ SubSeq(uri.dir, Len(uri.dir) - 1, Len(uri.dir)) = <<".github", "workflows">>
         /\ uri.file[2] \in {"yml", "yaml"} -> Some("GitHubActions")
      [] OTHER -> None

\* Backend::initialize_parsers: the registry types given a parser.
initialize_parsers == {"GitHubActions"}

\* Backend::initialize_cache: Some(cache), or None when the data directory
\* or the database cannot be set up.
initialize_cache == {None} \cup {Some(c) : c \in CacheContents}

LogMessage(type, message) ==
    [method |-> "window/logMessage", type |-> type, message |-> message]

PublishDiagnostics(uri, diags) ==
    [method |-> "textDocument/publishDiagnostics", uri |-> uri,
     diagnostics |-> diags]

\* Where did_open goes after "Document opened" is logged: it returns when
\* no parser type is detected or no parser is registered for it, warns when
\* there is no cache, and takes the cache lock otherwise.
after_log_opened(uri) ==
    LET parser_type == detect_parser_type(uri)
    IN  IF ~IsSome(parser_type) THEN "done"
        ELSE IF Unwrap(parser_type) \notin parsers THEN "done"
        ELSE IF ~IsSome(cache) THEN "warn"
        ELSE "lock"

\* Backend::new
Init ==
    /\ MatcherIdle
    /\ DiagIdle
    /\ CacheIdle
    /\ ResolverIdle
    /\ ParserIdle
    /\ RegistryIdle
    /\ cache \in initialize_cache
    /\ parsers = initialize_parsers
    /\ cache_guard = Free
    /\ handlers = <<>>
    /\ lifecycle = "new"
    /\ server_sent = <<>>
    /\ scan = [pc |-> "none", log |-> <<>>, queries |-> 0]

Others == <<matcherVars, diagVars, cacheVars, resolverVars,
      parserVars, registryVars>>

\* initialize: logs and answers with the capabilities.
Initialize ==
    /\ lifecycle = "new"
    /\ lifecycle' = "ready"
    /\ server_sent' = Append(server_sent,
                             LogMessage("INFO", "LSP server initializing"))
    /\ UNCHANGED <<cache, parsers, cache_guard, handlers, scan>>
    /\ UNCHANGED Others

\* initialized, up to its await on the client.
Initialized ==
    /\ lifecycle = "ready"
    /\ lifecycle' = "initialized"
    /\ server_sent' = Append(server_sent,
                             LogMessage("INFO", "LSP server initialized"))
    /\ UNCHANGED <<cache, parsers, cache_guard, handlers, scan>>
    /\ UNCHANGED Others

\* spawn_background_refresh without its test of the cache: the task is
\* spawned also when there is none.
SpawnBackgroundRefresh_always ==
    /\ lifecycle = "initialized"
    /\ lifecycle' = "running"
    /\ scan' = [scan EXCEPT !.pc = "spawned"]
    /\ UNCHANGED <<cache, parsers, cache_guard, handlers, server_sent>>
    /\ UNCHANGED Others

\* initialized, after the await: spawn_background_refresh.
SpawnBackgroundRefresh ==
    /\ lifecycle = "initialized"
    /\ lifecycle' = "running"
    /\ scan' = IF IsSome(cache)
               THEN [scan EXCEPT !.pc = "spawned"]
               ELSE [scan EXCEPT !.log = Append(@,
                        "Cache not available, skipping background refresh")]
    /\ UNCHANGED <<cache, parsers, cache_guard, handlers, server_sent>>
    /\ UNCHANGED Others

\* shutdown: logs and answers.
Shutdown ==
    /\ lifecycle = "running"
    /\ lifecycle' = "stopped"
    /\ server_sent' = Append(server_sent,
                             LogMessage("INFO", "LSP server shutting down"))
    /\ UNCHANGED <<cache, parsers, cache_guard, handlers, scan>>
    /\ UNCHANGED Others

\* The spawned scan takes the cache lock.
ScanLock ==
    /\ scan.pc = "spawned"
    /\ cache_guard = Free
    /\ cache_guard' = ScanTask
    /\ scan' = [scan EXCEPT !.pc = "locked"]
    /\ UNCHANGED <<cache, parsers, handlers, lifecycle, server_sent>>
    /\ UNCHANGED Others

\* The scan with a query that also deletes the rows it finds stale.
ScanQuery_deleting(result) ==
    /\ scan.pc = "locked"
    /\ cache_guard' = Free
    /\ cache' = Some([p \in Packages |-> NotFound])
    /\ scan' = IF result = "Err"
               THEN [pc |-> "done",
                     log |-> Append(scan.log,
                                    "Failed to get packages needing refresh"),
                     queries |-> scan.queries + 1]
               ELSE [pc |-> result, log |-> scan.log,
                     queries |-> scan.queries + 1]
    /\ UNCHANGED <<parsers, handlers, lifecycle, server_sent>>
    /\ UNCHANGED Others

\* get_packages_needing_refresh under the lock: an error is logged and ends
\* the task, a list of packages is kept for the report; the lock is released.
ScanQuery(result) ==
    /\ scan.pc = "locked"
    /\ cache_guard' = Free
    /\ scan' = IF result = "Err"
               THEN [pc |-> "done",
                     log |-> Append(scan.log,
                                    "Failed to get packages needing refresh"),
                     queries |-> scan.queries + 1]
               ELSE [pc |-> result, log |-> scan.log,
                     queries |-> scan.queries + 1]
    /\ UNCHANGED <<cache, parsers, handlers, lifecycle, server_sent>>
    /\ UNCHANGED Others

\* The scan logs what it found and ends.
ScanReport ==
    /\ scan.pc \in {"empty", "some"}
    /\ scan' = [pc |-> "done",
                log |-> Append(scan.log,
                               IF scan.pc = "empty" THEN "No packages need refresh"
                               ELSE "N packages need refresh"),
                queries |-> scan.queries]
    /\ UNCHANGED <<cache, parsers, cache_guard, handlers, lifecycle, server_sent>>
    /\ UNCHANGED Others

Handler(t) == handlers[t]

\* Handler t goes to pc, having sent these messages and holding these
\* diagnostics.
Step(t, pc, sent, diags) ==
    handlers' = [handlers EXCEPT ![t] =
                    [@ EXCEPT !.pc = pc, !.sent = @ \o sent, !.diagnostics = diags]]

\* A didOpen notification arrives: did_open starts and awaits the client
\* on its first log message.
DidOpen(uri, text) ==
    /\ lifecycle \in {"ready", "initialized", "running"}
    /\ Len(handlers) < MaxOpens
    /\ handlers' = Append(handlers,
                          [uri |-> uri, text |-> text, pc |-> "log_opened",
                           sent |-> <<>>, diagnostics |-> <<>>, queries |-> 0])
    /\ UNCHANGED <<cache, parsers, cache_guard, lifecycle, server_sent, scan>>
    /\ UNCHANGED Others

\* "Document opened" is logged; parser type, parser and cache are looked up.
LogOpened(t) ==
    /\ Handler(t).pc = "log_opened"
    /\ Step(t, after_log_opened(Handler(t).uri),
            <<LogMessage("LOG", <<"Document opened: ", Handler(t).uri>>)>>, <<>>)
    /\ UNCHANGED <<cache, parsers, cache_guard, lifecycle, server_sent, scan>>
    /\ UNCHANGED Others

\* Without a cache did_open logs a warning and returns.
LogCacheWarning(t) ==
    /\ Handler(t).pc = "warn"
    /\ Step(t, "done",
            <<LogMessage("WARNING", "Cache not available, skipping diagnostics")>>,
            <<>>)
    /\ UNCHANGED <<cache, parsers, cache_guard, lifecycle, server_sent, scan>>
    /\ UNCHANGED Others

\* A lock that does not wait for its holder.
LockCache_no_wait(t) ==
    /\ Handler(t).pc = "lock"
    /\ cache_guard' = HandlerTask(t)
    /\ Step(t, "generate", <<>>, <<>>)
    /\ UNCHANGED <<cache, parsers, lifecycle, server_sent, scan>>
    /\ UNCHANGED Others

\* cache.lock()
LockCache(t) ==
    /\ Handler(t).pc = "lock"
    /\ cache_guard = Free
    /\ cache_guard' = HandlerTask(t)
    /\ Step(t, "generate", <<>>, <<>>)
    /\ UNCHANGED <<cache, parsers, lifecycle, server_sent, scan>>
    /\ UNCHANGED Others

\* The cache queries of generate_diagnostics: the engine asks for the
\* versions of every record.
cache_queries(records) == Len(records)

\* generate_diagnostics(parser, cache_guard, content), then the guard is
\* dropped.
Generate(t) ==
    /\ Handler(t).pc = "generate"
    /\ cache_guard = HandlerTask(t)
    /\ cache_guard' = Free
    /\ handlers' = [handlers EXCEPT ![t] =
                        [@ EXCEPT !.pc = "log_publishing",
                                  !.diagnostics =
                                      generate_diagnostics(parse(Handler(t).text),
                                                           Unwrap(cache)),
                                  !.queries = @ + cache_queries(parse(Handler(t).text))]]
    /\ UNCHANGED <<cache, parsers, lifecycle, server_sent, scan>>
    /\ UNCHANGED Others

\* "Publishing N diagnostics" is logged.
LogPublishing(t) ==
    /\ Handler(t).pc = "log_publishing"
    /\ Step(t, "publish",
            <<LogMessage("LOG", <<"Publishing ", Len(Handler(t).diagnostics),
                                  " diagnostics for ", Handler(t).uri>>)>>,
            Handler(t).diagnostics)
    /\ UNCHANGED <<cache, parsers, cache_guard, lifecycle, server_sent, scan>>
    /\ UNCHANGED Others

\* publish_diagnostics(uri, diagnostics); did_open returns.
Publish(t) ==
    /\ Handler(t).pc = "publish"
    /\ Step(t, "done",
            <<PublishDiagnostics(Handler(t).uri, Handler(t).diagnostics)>>,
            Handler(t).diagnostics)
    /\ UNCHANGED <<cache, parsers, cache_guard, lifecycle, server_sent, scan>>
    /\ UNCHANGED Others

Next ==
    \/ Initialize
    \/ Initialized
    \/ SpawnBackgroundRefresh
    \/ Shutdown
    \/ ScanLock
    \/ \E result \in {"Err", "empty", "some"} : ScanQuery(result)
    \/ ScanReport
    \/ \E uri \in Uris, text \in Texts : DidOpen(uri, text)
    \/ \E t \in DOMAIN handlers : LogOpened(t)
    \/ \E t \in DOMAIN handlers : LogCacheWarning(t)
    \/ \E t \in DOMAIN handlers : LockCache(t)
    \/ \E t \in DOMAIN handlers : Generate(t)
    \/ \E t \in DOMAIN handlers : LogPublishing(t)
    \/ \E t \in DOMAIN handlers : Publish(t)

Spec == Init /\ [][Next]_vars

\* A step of the did_open handler t outside its critical section: it is
\* resumed after an await on the client, or it takes the lock.
HandlerStep(t) ==
    /\ t \in DOMAIN handlers
    /\ \/ LogOpened(t)
       \/ LogCacheWarning(t)
       \/ LockCache(t)
       \/ LogPublishing(t)
       \/ Publish(t)

\* The did_open handler t leaves its critical section: the guard is dropped
\* at the end of the block that calls generate_diagnostics.
Unlock(t) ==
    /\ t \in DOMAIN handlers
    /\ cache_guard = HandlerTask(t)
    /\ cache_guard' = Free

\* A step of the spawned scan.
ScanStep ==
    \/ ScanLock
    \/ \E result \in {"Err", "empty", "some"} : ScanQuery(result)
    \/ ScanReport

\* The runtime keeps running every task that can run: the initialized
\* handler after its await, the spawned scan, and each did_open handler;
\* generate_diagnostics has no await and returns, so the holder of the guard
\* reaches the end of its block.  Notifications arrive, or not, as the
\* client pleases.
\* The URIs opened where progress is checked: one whose handler takes the
\* cache lock, one without a registered parser and one that is no manifest.
FairUris ==
    { Uri(<<"repo", ".github", "workflows">>, "ci", "yml"),
      Uri(<<"test">>, "package", "json"),
      Uri(<<"test">>, "README", "md") }

\* The text opened there: progress does not depend on it.
FairTexts == {"lodash 9.9.9, react 1.0.0"}

FairNext ==
    \/ Initialize
    \/ Initialized
    \/ SpawnBackgroundRefresh
    \/ Shutdown
    \/ ScanStep
    \/ \E uri \in FairUris, text \in FairTexts : DidOpen(uri, text)
    \/ \E t \in DOMAIN handlers : HandlerStep(t)
    \/ \E t \in DOMAIN handlers : Generate(t)

FairSpec ==
    /\ Init
    /\ [][FairNext]_vars
    /\ WF_vars(SpawnBackgroundRefresh)
    /\ WF_vars(ScanStep)
    /\ \A t \in 1..MaxOpens : WF_vars(HandlerStep(t))
    /\ \A t \in 1..MaxOpens : WF_cache_guard(Unlock(t))

(***************************************************************************)
(* Properties of the backend (checked under Spec).                         *)
(***************************************************************************)
\* The publishDiagnostics notifications handler t sent.
Published(t) ==
    SelectSeq(Handler(t).sent,
              LAMBDA m : m.method = "textDocument/publishDiagnostics")

\* The five supported manifest file names.
Supported(uri) == IsSome(detect_parser_type(uri))

\* C3: a didOpen for a supported manifest file name received while the
\* cache is available is followed by exactly one publishDiagnostics with
\* its URI, whose diagnostics are those of its own text: once its handler
\* has returned, it has published exactly that, and it never publishes more.
C3_DidOpenPublishesOnce ==
    \A t \in DOMAIN handlers :
        (Supported(Handler(t).uri) /\ IsSome(cache)) =>
            /\ Len(Published(t)) <= 1
            /\ Handler(t).pc = "done" =>
                  Published(t) =
                      <<PublishDiagnostics(
                            Handler(t).uri,
                            generate_diagnostics(parse(Handler(t).text),
                                                 Unwrap(cache)))>>

(***************************************************************************)
(* The package resolver (PackageResolver::resolve): cache lookup, then a   *)
(* fetch through the registry client shared by the callers that find one   *)
(* in flight.  A caller is suspended at every cache read and write and at  *)
(* the registry request; other callers run meanwhile.  One package, whose  *)
(* cache row is absent when the calls begin.                               *)
(***************************************************************************)
\* The concurrent resolve calls.
MaxCallers == 3

Callers == 1..MaxCallers

\* What the registry answers to a fetch that succeeds.
RegistryAnswers ==
    { Resolved(<<VerStr(1, 0, 0)>>), Resolved(<<VerStr(1, 0, 0), VerStr(1, 1, 0)>>) }

\* The errors of a fetch.
RegistryErrors == {NotFound, Failed}

ResolverInit ==
    /\ MatcherIdle
    /\ DiagIdle
    /\ CacheIdle
    /\ BackendIdle
    /\ ParserIdle
    /\ RegistryIdle
    /\ rcache = None
    /\ in_flight = None
    /\ fetches = 0
    /\ callers = [c \in Callers |-> [pc |-> "idle", result |-> None]]
    /\ fetch_failed = FALSE

NotResolver == <<matcherVars, diagVars, cacheVars, backendVars,
      parserVars, registryVars>>

\* Caller c gets this result and returns, and so does every caller waiting
\* for the fetch in flight.
Delivered(c, result) ==
    [d \in Callers |->
        IF d = c \/ callers[d].pc = "waiting"
        THEN [pc |-> "done", result |-> Some(result)]
        ELSE callers[d]]

\* resolve(name) is called.
Resolve(c) ==
    /\ callers[c].pc = "idle"
    /\ callers' = [callers EXCEPT ![c].pc = "lookup"]
    /\ UNCHANGED <<rcache, in_flight, fetches, fetch_failed>>
    /\ UNCHANGED NotResolver

\* Steps 1 and 2: the cache is read; a fresh row is returned.
Lookup(c) ==
    /\ callers[c].pc = "lookup"
    /\ callers' = [callers EXCEPT ![c] =
                      IF IsSome(rcache)
                      THEN [pc |-> "done", result |-> rcache]
                      ELSE [pc |-> "missed", result |-> None]]
    /\ UNCHANGED <<rcache, in_flight, fetches, fetch_failed>>
    /\ UNCHANGED NotResolver

\* Steps 3 and 4 after a miss: wait for the fetch in flight, or register
\* one and send the request to the registry.
JoinOrFetch(c) ==
    /\ callers[c].pc = "missed"
    /\ IF IsSome(in_flight)
       THEN /\ callers' = [callers EXCEPT ![c].pc = "waiting"]
            /\ UNCHANGED <<in_flight, fetches>>
       ELSE /\ callers' = [callers EXCEPT ![c].pc = "fetching"]
            /\ in_flight' = Some(c)
            /\ fetches' = fetches + 1
    /\ UNCHANGED <<rcache, fetch_failed>>
    /\ UNCHANGED NotResolver

\* The registry answers with the versions.
FetchOk(c, answer) ==
    /\ callers[c].pc = "fetching"
    /\ callers' = [callers EXCEPT ![c] = [pc |-> "upsert", result |-> Some(answer)]]
    /\ UNCHANGED <<rcache, in_flight, fetches, fetch_failed>>
    /\ UNCHANGED NotResolver

\* The fetch fails: the error is surfaced to the caller and to the waiters,
\* and the cache row is left alone.
FetchErr(c, err) ==
    /\ callers[c].pc = "fetching"
    /\ callers' = Delivered(c, err)
    /\ in_flight' = None
    /\ fetch_failed' = TRUE
    /\ UNCHANGED <<rcache, fetches>>
    /\ UNCHANGED NotResolver

\* Step 3: the result is written to the cache.
UpsertFetched(c) ==
    /\ callers[c].pc = "upsert"
    /\ rcache' = callers[c].result
    /\ callers' = [callers EXCEPT ![c].pc = "complete"]
    /\ UNCHANGED <<in_flight, fetches, fetch_failed>>
    /\ UNCHANGED NotResolver

\* The fetch in flight completes: the caller and the waiters return it.
Complete(c) ==
    /\ callers[c].pc = "complete"
    /\ callers' = Delivered(c, Unwrap(callers[c].result))
    /\ in_flight' = None
    /\ UNCHANGED <<rcache, fetches, fetch_failed>>
    /\ UNCHANGED NotResolver

ResolverNext ==
    \/ \E c \in Callers : Resolve(c)
    \/ \E c \in Callers : Lookup(c)
    \/ \E c \in Callers : JoinOrFetch(c)
    \/ \E c \in Callers, answer \in RegistryAnswers : FetchOk(c, answer)
    \/ \E c \in Callers, err \in RegistryErrors : FetchErr(c, err)
    \/ \E c \in Callers : UpsertFetched(c)
    \/ \E c \in Callers : Complete(c)

ResolverSpec == ResolverInit /\ [][ResolverNext]_vars

(***************************************************************************)
(* Properties of the resolver (checked under ResolverSpec).                *)
(***************************************************************************)
Returned == {c \in Callers : callers[c].pc = "done"}

\* C4: for the concurrent resolve calls of one package on a cold cache, in
\* every interleaving without a fetch error the registry client sees
\* exactly one fetch_all_versions, and all callers return the same
\* PackageVersions.
C4_SingleFetch ==
    ~fetch_failed =>
        /\ fetches <= 1
        /\ Returned # {} => fetches = 1
        /\ \A c, d \in Returned : callers[c].result = callers[d].result

(***************************************************************************)
(* The parsers run on drawn documents: the document is written from a      *)
(* manifest, tree-sitter gives its syntax tree, and the parser for its     *)
(* format is run once.                                                     *)
(***************************************************************************)
\* The document d was written from manifest m and nothing is parsed yet.
Written(m, d) ==
    /\ manifest = m
    /\ content = d.content
    /\ tree = d.tree
    /\ results = <<>>
    /\ ppc = "input"

ParserInit ==
    /\ MatcherIdle
    /\ DiagIdle
    /\ CacheIdle
    /\ BackendIdle
    /\ ResolverIdle
    /\ RegistryIdle
    /\ \/ \E root \in JsonRoots :
            Written([format |-> "package.json", root |-> root],
                    JsonDocument(root))
       \/ \E m \in TomlManifests :
            Written([format |-> "Cargo.toml", pairs |-> m.pairs,
                     tables |-> m.tables],
                    TomlDocument(m.pairs, m.tables))

NotParser ==
    <<matcherVars, diagVars, cacheVars, backendVars, resolverVars,
      registryVars>>

\* PackageJsonParser::parse on a package.json document.
ParsePackageJson ==
    /\ ppc = "input"
    /\ manifest.format = "package.json"
    /\ results' = PackageJsonParser_parse(content, tree)
    /\ ppc' = "package_json"
    /\ UNCHANGED <<manifest, content, tree>>
    /\ UNCHANGED NotParser

\* CargoTomlParser::parse on a Cargo.toml document.
ParseCargoToml ==
    /\ ppc = "input"
    /\ manifest.format = "Cargo.toml"
    /\ results' = CargoTomlParser_parse(content, tree)
    /\ ppc' = "cargo_toml"
    /\ UNCHANGED <<manifest, content, tree>>
    /\ UNCHANGED NotParser

ParserNext == ParsePackageJson \/ ParseCargoToml

ParserSpec == ParserInit /\ [][ParserNext]_vars

\* The parsers run on documents with content they do not recognise: the
\* package.json documents have a comment line above the root value, and the
\* Cargo.toml documents have pairs and tables that are no dependencies.
TolerantInit ==
    /\ MatcherIdle
    /\ DiagIdle
    /\ CacheIdle
    /\ BackendIdle
    /\ ResolverIdle
    /\ RegistryIdle
    /\ \/ \E root \in JsonRoots :
            Written([format |-> "package.json", root |-> root],
                    JsonCommentedDocument(root))
       \/ \E m \in TomlManifests :
            Written([format |-> "Cargo.toml", pairs |-> m.pairs,
                     tables |-> m.tables],
                    TomlDocument(m.pairs, m.tables))

TolerantSpec == TolerantInit /\ [][ParserNext]_vars

(***************************************************************************)
(* Properties of the parsers.                                              *)
(***************************************************************************)
Emitted == DOMAIN results

\* The bytes of the document a record's span covers.
SpanText(r) == Slice(content, r.start_offset, r.end_offset)

\* The literal a record was taken from, as written: the span and the byte
\* on either side of it.
LiteralText(r) == Slice(content, r.start_offset - 1, r.end_offset + 1)

\* The row of the byte at this offset of the document: the line breaks
\* before it.
RowOf(offset) == Cardinality({i \in 1..offset : content[i] = "\n"})

\* The column of the byte at this offset: its distance from the start of
\* its line.
ColumnOf(offset) ==
    LET breaks == {i \in 1..offset : content[i] = "\n"}
    IN  offset - (IF breaks = {} THEN 0
                  ELSE CHOOSE i \in breaks : \A j \in breaks : j <= i)

\* C14: for every record a parser emitted, the bytes of the document between
\* its start and end offsets are exactly its version string.
C14_SpanIntegrity ==
    ppc # "input" => \A i \in Emitted : SpanText(results[i]) = results[i].version

\* C15: every emitted record has start_offset <= end_offset <= the length of
\* the document and a span as long as its version string; its line is the
\* row of the literal and its column the column of the opening quote plus
\* one.
C15_SpanBounds ==
    ppc # "input" =>
        \A i \in Emitted :
            /\ results[i].start_offset <= results[i].end_offset
            /\ results[i].end_offset <= Len(content)
            /\ results[i].end_offset - results[i].start_offset
                   = Len(results[i].version)
            /\ results[i].line = RowOf(results[i].start_offset - 1)
            /\ results[i].column = ColumnOf(results[i].start_offset - 1) + 1

\* What the records say about where they come from: the name, the literal
\* as written, the registry and the commit hash.
Origins(registry_type) ==
    [i \in Emitted |->
        [name |-> results[i].name, literal |-> LiteralText(results[i]),
         registry_type |-> results[i].registry_type,
         commit_hash |-> results[i].commit_hash]]

OriginOf(name, literal, registry_type) ==
    [name |-> name, literal |-> literal, registry_type |-> registry_type,
     commit_hash |-> None]

\* The three dependency members of package.json, as written.
DependencyMembers ==
    {<<"\"", "d", "e", "p", "e", "n", "d", "e", "n", "c", "i", "e", "s", "\"">>,
     <<"\"", "d", "e", "v", "D", "e", "p", "e", "n", "d", "e", "n", "c", "i", "e", "s", "\"">>,
     <<"\"", "p", "e", "e", "r", "D", "e", "p", "e", "n", "d", "e", "n", "c", "i", "e", "s", "\"">>}

\* A key as written, without its quotes.
Unquoted(key) == SubSeq(key, 2, Len(key) - 1)

\* One record for each member of the object with a string value, in order.
StringMembers(object) ==
    Concat([i \in DOMAIN object.members |->
               IF object.members[i][2].type = "string"
               THEN <<OriginOf(Unquoted(object.members[i][1]),
                               object.members[i][2].raw, "Npm")>>
               ELSE <<>>])

\* The records of the string members of each top-level dependency member
\* that is an object, in order.
DependencyStrings(root) ==
    IF root.type # "object" THEN <<>>
    ELSE Concat([i \in DOMAIN root.members |->
                    IF /\ root.members[i][1] \in DependencyMembers
                       /\ root.members[i][2].type = "object"
                    THEN StringMembers(root.members[i][2])
                    ELSE <<>>])

\* C16: the package.json parser yields exactly one record for each pair with
\* a string value in each top-level dependencies, devDependencies or
\* peerDependencies member that is an object, in document order, tagged Npm
\* and without a commit hash, and nothing else.
C16_PackageJsonRecords ==
    ppc = "package_json" => Origins("Npm") = DependencyStrings(manifest.root)

\* The members of the root object with this property.
TopLevel(P(_)) ==
    {i \in DOMAIN manifest.root.members : P(manifest.root.members[i])}

IsDependencyObject(member) ==
    member[1] \in DependencyMembers /\ member[2].type = "object"

HasOtherValue(member) ==
    /\ IsDependencyObject(member)
    /\ \E j \in DOMAIN member[2].members : member[2].members[j][2].type # "string"

HasNestedDependencies(member) ==
    /\ member[1] \notin DependencyMembers
    /\ member[2].type = "object"
    /\ \E j \in DOMAIN member[2].members :
           member[2].members[j][1] \in DependencyMembers

\* C16 witness: a parsed package.json with two records from two dependency
\* objects, one of them peerDependencies with a value that is not a string,
\* next to a member that nests a dependencies object.
C16_Witness ==
    /\ ppc = "package_json"
    /\ manifest.root.type = "object"
    /\ Len(results) = 2
    /\ Cardinality(TopLevel(IsDependencyObject)) = 2
    /\ \E i \in TopLevel(HasOtherValue) :
           manifest.root.members[i][1] = <<"\"", "p", "e", "e", "r", "D", "e", "p", "e", "n", "d", "e", "n", "c", "i", "e", "s", "\"">>
    /\ TopLevel(HasNestedDependencies) # {}

\* The four dependency tables of Cargo.toml.
DependencyTableNames ==
    {<<"d", "e", "p", "e", "n", "d", "e", "n", "c", "i", "e", "s">>,
     <<"d", "e", "v", "-", "d", "e", "p", "e", "n", "d", "e", "n", "c", "i", "e", "s">>,
     <<"b", "u", "i", "l", "d", "-", "d", "e", "p", "e", "n", "d", "e", "n", "c", "i", "e", "s">>,
     <<"w", "o", "r", "k", "s", "p", "a", "c", "e", ".", "d", "e", "p", "e", "n", "d", "e", "n", "c", "i", "e", "s">>}

\* The version literal of a value: the string itself, or the string of the
\* first version entry of an inline table; None if there is none.
VersionLiteral(value) ==
    IF value.type = "string" THEN Some(value.raw)
    ELSE IF value.type # "inline_table" THEN None
    ELSE LET entries == {j \in DOMAIN value.pairs :
                            /\ value.pairs[j][1].raw = <<"v", "e", "r", "s", "i", "o", "n">>
                            /\ value.pairs[j][2].type = "string"}
         IN  IF entries = {} THEN None
             ELSE Some(value.pairs[CHOOSE j \in entries :
                                       \A k \in entries : j <= k][2].raw)

\* One record for each pair of the table with a version literal, in order.
VersionPairs(table) ==
    Concat([i \in DOMAIN table.pairs |->
               IF IsSome(VersionLiteral(table.pairs[i][2]))
               THEN <<OriginOf(table.pairs[i][1].raw,
                               Unwrap(VersionLiteral(table.pairs[i][2])),
                               "CratesIo")>>
               ELSE <<>>])

\* C17: the Cargo.toml parser yields one record for each pair with a string
\* or an inline table with a version entry in each table named dependencies,
\* dev-dependencies, build-dependencies or workspace.dependencies, in
\* document order, its span at the version literal, and nothing else.
C17_CargoTomlRecords ==
    ppc = "cargo_toml" =>
        Origins("CratesIo")
            = Concat([i \in DOMAIN manifest.tables |->
                         IF manifest.tables[i].key.raw \in DependencyTableNames
                         THEN VersionPairs(manifest.tables[i])
                         ELSE <<>>])

(***************************************************************************)
(* The registry clients run on drawn answers: one fetch_all_versions call, *)
(* then latest() on what it returned.                                      *)
(***************************************************************************)
\* The registry answered with this status and body; nothing is fetched yet.
Answered(registry, package_name, status, body) ==
    /\ response = [registry |-> registry, package_name |-> package_name,
                   status |-> status, body |-> body]
    /\ fetched = <<>>
    /\ latest_out = <<>>
    /\ refetched = <<>>
    /\ regpc = "input"

RegistryInit ==
    /\ MatcherIdle
    /\ DiagIdle
    /\ CacheIdle
    /\ BackendIdle
    /\ ResolverIdle
    /\ ParserIdle
    /\ \/ \E registry \in {"npm", "crates.io"}, package_name \in PackageNames,
              status \in Statuses :
            \E body \in {NotJson, EmptyBody(registry)} :
                Answered(registry, package_name, status, body)
       \/ \E S \in VersionSets :
            \E dist_tags \in DistTags, T \in SUBSET S :
                \E time \in [T -> TimeStrings] :
                    Answered("npm", "lodash", 200, NpmBody(S, dist_tags, time))
       \/ \E S \in VersionSets :
            \E nums \in Orders(S),
               yanked \in [1..Cardinality(S) -> BOOLEAN],
               created_at \in [1..Cardinality(S) -> TimeStrings] :
                Answered("crates.io", "lodash", 200, CratesIoBody(nums, yanked, created_at))

NotRegistry ==
    <<matcherVars, diagVars, cacheVars, backendVars, resolverVars, parserVars>>

\* NpmRegistry::fetch_all_versions on an answer of the npm registry; the
\* HashMap of versions is iterated in some order.
NpmFetchAllVersions ==
    /\ regpc = "input"
    /\ response.registry = "npm"
    /\ \E keys \in Orders(IF response.body.valid THEN response.body.versions ELSE {}) :
           fetched' = NpmRegistry_fetch_all_versions(response, keys)
    /\ regpc' = "fetched"
    /\ UNCHANGED <<response, latest_out, refetched>>
    /\ UNCHANGED NotRegistry

\* CratesIoRegistry::fetch_all_versions on an answer of crates.io.
CratesIoFetchAllVersions ==
    /\ regpc = "input"
    /\ response.registry = "crates.io"
    /\ fetched' = CratesIoRegistry_fetch_all_versions(response)
    /\ regpc' = "fetched"
    /\ UNCHANGED <<response, latest_out, refetched>>
    /\ UNCHANGED NotRegistry

\* PackageVersions::latest on the versions a fetch returned.
Latest ==
    /\ regpc = "fetched"
    /\ fetched.ok
    /\ latest_out' = PackageVersions_latest(fetched.value)
    /\ regpc' = "latest"
    /\ UNCHANGED <<response, fetched, refetched>>
    /\ UNCHANGED NotRegistry

\* NpmRegistry::fetch_all_versions called again on the same answer: the
\* answer is deserialized into a new HashMap, iterated in an order of its own.
NpmFetchAgain ==
    /\ regpc = "fetched"
    /\ response.registry = "npm"
    /\ \E keys \in Orders(IF response.body.valid THEN response.body.versions ELSE {}) :
           refetched' = NpmRegistry_fetch_all_versions(response, keys)
    /\ regpc' = "refetched"
    /\ UNCHANGED <<response, fetched, latest_out>>
    /\ UNCHANGED NotRegistry

\* CratesIoRegistry::fetch_all_versions called again on the same answer.
CratesIoFetchAgain ==
    /\ regpc = "fetched"
    /\ response.registry = "crates.io"
    /\ refetched' = CratesIoRegistry_fetch_all_versions(response)
    /\ regpc' = "refetched"
    /\ UNCHANGED <<response, fetched, latest_out>>
    /\ UNCHANGED NotRegistry

RegistryNext ==
    \/ NpmFetchAllVersions
    \/ CratesIoFetchAllVersions
    \/ Latest
    \/ NpmFetchAgain
    \/ CratesIoFetchAgain

RegistrySpec == RegistryInit /\ [][RegistryNext]_vars

(***************************************************************************)
(* Properties of the registry clients.                                     *)
(***************************************************************************)
\* The versions the fetch returned.
FetchedVersions == fetched.value.versions

\* C18: latest() returns the last element of the versions, which the clients
\* order oldest first, or nothing when there is none.
C18_LatestIsLast ==
    regpc = "latest" =>
        latest_out = IF FetchedVersions = <<>> THEN None
                     ELSE Some(FetchedVersions[Len(FetchedVersions)])

\* The instant a timestamp string stands for, if it is a date.
InstantOf(ts) == IF ts.rfc3339 THEN Some(ts.local - ts.offset) ELSE None

\* The list has every element of S once and nothing else.
ListsOnce(list, S) ==
    {list[i] : i \in DOMAIN list} = S /\ Len(list) = Cardinality(S)

\* The list is ordered by Stamp ascending, with the elements without a
\* stamp before all others.
OldestFirst(list, Stamp(_)) ==
    \A i, j \in DOMAIN list :
        i < j =>
            /\ Stamp(list[j]) = None => Stamp(list[i]) = None
            /\ Stamp(list[i]) # None /\ Stamp(list[j]) # None
                   => Unwrap(Stamp(list[i])) <= Unwrap(Stamp(list[j]))

NpmFetched ==
    /\ regpc # "input"
    /\ response.registry = "npm"
    /\ response.status = 200
    /\ response.body.valid

\* When the npm answer says version v was published, if it does.
PublishedAt(v) ==
    IF v \in DOMAIN response.body.time THEN InstantOf(response.body.time[v])
    ELSE None

CratesIoFetched ==
    /\ regpc # "input"
    /\ response.registry = "crates.io"
    /\ response.status = 200
    /\ response.body.valid

\* The entries of the crates.io answer that are yanked, or are not.
Entries(yanked) ==
    {i \in DOMAIN response.body.versions : response.body.versions[i].yanked = yanked}

\* When the crates.io answer says version num was created, if it does.
CreatedAt(num) ==
    LET e == CHOOSE i \in DOMAIN response.body.versions :
                 response.body.versions[i].num = num
    IN  InstantOf(response.body.versions[e].created_at)

WellFormed == response.status \in 200..299 /\ response.body.valid

\* C21: fetch_all_versions gives NotFound with the package name for status
\* 404, InvalidResponse for any other status outside 2xx and for a 2xx answer
\* whose body does not decode, and Ok only for a well-formed 2xx answer.
C21_OneOutcome ==
    regpc # "input" =>
        /\ fetched.ok <=> WellFormed
        /\ response.status = 404 =>
               fetched.value = [kind |-> "NotFound", detail |-> response.package_name]
        /\ response.status # 404 /\ ~WellFormed =>
               fetched.value.kind = "InvalidResponse"

\* C21 witness: a fetch answered with status 201 and a body that decodes
\* returned Ok.
C21_Witness ==
    /\ regpc = "fetched"
    /\ response.status = 201
    /\ response.body.valid
    /\ fetched.ok

\* C30: registry normalisation is deterministic: two fetch_all_versions
\* calls that receive the same registry response return identical results,
\* the version lists in the same order, also when several versions have
\* equal, missing or unparseable timestamps.
C30_Deterministic ==
    regpc = "refetched" => refetched = fetched

(***************************************************************************)
(* The cache schema (checked under SchemaSpec).                             *)
(***************************************************************************)
\* The names table_exists is asked about: the two tables, their spelling in
\* other case, an index, SQLite's own tables and a name never created.
TableNames ==
    {"packages", "versions", "Packages", "VERSIONS", "idx_updated_at",
     "sqlite_sequence", "sqlite_master", "dist_tags"}

\* Cache::new again leaves the schema objects and the rows as they were.
ReopenKeeps ==
    (opened # <<>> /\ Len(opened') > Len(opened)) =>
        /\ sqlite_master' = sqlite_master
        /\ pkg_rows' = pkg_rows
        /\ ver_rows' = ver_rows

HoldersInCriticalSection ==
    /\ \A t \in DOMAIN handlers :
          cache_guard = HandlerTask(t) <=> Handler(t).pc = "generate"
    /\ cache_guard = ScanTask <=> scan.pc = "locked"

\* C23: a didOpen whose URI matches no supported manifest file name is
\* answered with a publishDiagnostics for that URI with an empty list of
\* diagnostics: once its handler has returned, it has published exactly that.
C23_UnsupportedPublishesEmpty ==
    \A t \in DOMAIN handlers :
        (~Supported(Handler(t).uri) /\ Handler(t).pc = "done") =>
            Published(t) = <<PublishDiagnostics(Handler(t).uri, <<>>)>>

\* The "cache not available" warnings handler t sent to the client.
CacheWarnings(t) ==
    SelectSeq(Handler(t).sent, LAMBDA m : m.type = "WARNING")

\* C24: when cache initialisation failed the backend runs with the cache
\* disabled: whatever didOpen notifications arrive, no diagnostics are
\* published, and the "cache not available" warning is logged only once
\* over all of them.
C24_WarnsOnce ==
    ~IsSome(cache) =>
        /\ \A t \in DOMAIN handlers : Published(t) = <<>>
        /\ \A t \in DOMAIN handlers : Len(CacheWarnings(t)) <= 1
        /\ Cardinality({t \in DOMAIN handlers : CacheWarnings(t) # <<>>}) <= 1

\* C27: a task that holds the cache lock makes a single cache query before
\* it releases the lock (and no registry request: neither did_open nor the
\* scan has a step that makes one).
C27_SingleQuery ==
    /\ \A t \in DOMAIN handlers : Handler(t).queries <= 1
    /\ scan.queries <= 1

ScanOutcomes ==
    {"N packages need refresh", "No packages need refresh",
     "Failed to get packages needing refresh"}

\* The scan has ended with one of its outcomes logged last.
ScanTerminated ==
    /\ scan.pc = "done"
    /\ scan.log # <<>>
    /\ scan.log[Len(scan.log)] \in ScanOutcomes

\* initialized returns in the step that spawns the scan, no step of which
\* has been taken yet; without a cache nothing is spawned.
ReturnsAtSpawn ==
    (lifecycle = "initialized" /\ lifecycle' # "initialized") =>
        /\ lifecycle' = "running"
        /\ scan'.pc = IF IsSome(cache) THEN "spawned" ELSE "none"
        /\ scan'.queries = 0

\* C26: the initialized handler never waits for the background scan: it
\* returns after spawning the scan as a task of its own; the spawned scan
\* always terminates, having logged a count, "no packages need refresh" or
\* an error; without a cache no scan task is started at all.
C26_ScanInBackground ==
    /\ [][ReturnsAtSpawn]_vars
    /\ [](~IsSome(cache) => scan.pc = "none" /\ scan.queries = 0)
    /\ (lifecycle = "initialized") ~> (lifecycle # "initialized")
    /\ (scan.pc = "spawned") ~> ScanTerminated

\* C26 witness: initialized has returned, handlers run, and the scan it
\* spawned has not taken its first step.
C26_Witness ==
    /\ lifecycle = "running"
    /\ scan.pc = "spawned"
    /\ handlers # <<>>
    /\ cache_guard # Free

\* The tasks inside a critical section of the cache lock.
Holders ==
    {HandlerTask(t) : t \in {h \in DOMAIN handlers : Handler(h).pc = "generate"}}
        \cup (IF scan.pc = "locked" THEN {ScanTask} ELSE {})

\* Handler t is suspended at an await on the client.
AwaitsClient(t) ==
    Handler(t).pc \in {"log_opened", "warn", "log_publishing", "publish"}

\* C29: the cache lock is never held while a handler awaits the client, nor
\* while the scan logs its result; at most one task holds it at a time;
\* every acquisition is followed by a release; and no handler waits for the
\* lock forever.
C29_LockDiscipline ==
    /\ [](/\ \A t \in DOMAIN handlers :
                AwaitsClient(t) => cache_guard # HandlerTask(t)
          /\ scan.pc \in {"empty", "some", "done"} => cache_guard # ScanTask
          /\ Cardinality(Holders) <= 1
          /\ Holders = IF cache_guard = Free THEN {} ELSE {cache_guard})
    /\ (cache_guard # Free) ~> (cache_guard = Free)
    /\ \A t \in 1..MaxOpens :
          (t \in DOMAIN handlers /\ Handler(t).pc = "lock")
              ~> (t \in DOMAIN handlers /\ Handler(t).pc # "lock")

\* C29 witness: one handler holds the lock while another waits for it and
\* the scan has still to take it.
C29_Witness ==
    /\ Len(handlers) = 2
    /\ cache_guard = HandlerTask(1)
    /\ Handler(2).pc = "lock"
    /\ scan.pc = "spawned"

\* Every didOpen is dealt with: its handler returns.
HandlersReturn ==
    \A t \in 1..MaxOpens :
        (t \in DOMAIN handlers) ~> (t \in DOMAIN handlers /\ Handler(t).pc = "done")

(***************************************************************************)
(* The parsers on content they do not recognise (checked under             *)
(* TolerantSpec).                                                          *)
(***************************************************************************)
\* Every element of the sequence expected is an element of the sequence got.
AllYielded(expected, got_records) ==
    \A i \in DOMAIN expected :
        \E j \in DOMAIN got_records : got_records[j] = expected[i]

\* The tables CargoTomlParser recognises, as written in the header.
RecognisedTables ==
    {<<"d", "e", "p", "e", "n", "d", "e", "n", "c", "i", "e", "s">>,
     <<"d", "e", "v", "-", "d", "e", "p", "e", "n", "d", "e", "n", "c", "i", "e", "s">>,
     <<"b", "u", "i", "l", "d", "-", "d", "e", "p", "e", "n", "d", "e", "n", "c", "i", "e", "s">>}

\* C22: the package.json and Cargo.toml parsers return no error for content
\* that is malformed or that they do not recognise: parse returns its
\* records, having skipped what it does not recognise, and every well-formed
\* dependency pair of a recognised section is among the records, whatever
\* else the document holds.
C22_WellFormedPairsYielded ==
    /\ ppc = "package_json" =>
          AllYielded(DependencyStrings(manifest.root), Origins("Npm"))
    /\ ppc = "cargo_toml" =>
          AllYielded(Concat([i \in DOMAIN manifest.tables |->
                                IF manifest.tables[i].key.raw \in RecognisedTables
                                THEN VersionPairs(manifest.tables[i])
                                ELSE <<>>]),
                     Origins("CratesIo"))

=============================================================================
